---- MODULE Spec2Model ----
(***************************************************************************)
(* Council orchestration and role-based allocation of the deck builder.    *)
(*                                                                         *)
(*   Spec      one deck build (_generate_deck_internal): the corpus, the   *)
(*             council configuration and the build flags are drawn in      *)
(*             Init; the actions are the steps of the build.               *)
(*   SpecVote  the voting aggregator (aggregate_rankings) applied to       *)
(*             bounded agent rankings, weights, strategies and top_k.      *)
(*   SpecGraph one council call: load_council_config on a drawn document   *)
(*             and overrides, build_graph, and the steps of graph.invoke.  *)
(*   SpecMerge the reducer of agent_rankings applied to two writes.        *)
(*   SpecPool  one call of _build_candidate_pool on a drawn corpus.        *)
(*   SpecResolve  the mapping of a final ranking to cards of the pool.     *)
(*                                                                         *)
(* Cards are records; a card list of the program is a sequence of card     *)
(* ids, the id being the position of the card in the corpus scan order.    *)
(* Scores are integers: a component score c stands for c/10, a preference  *)
(* weight w for w/4 and an agent weight for itself.                        *)
(***************************************************************************)
EXTENDS Integers, Sequences, FiniteSets, TLC

VARIABLES
    corpus,          \* the cards table, in scan order
    commander,       \* [card_id, color_identity]
    constraints,     \* [use_council, use_llm_agent]
    config,          \* the CouncilConfig the council calls load
    openai_api_key,  \* settings.openai_api_key is set
    pc,              \* position in _generate_deck_internal
    role_idx,        \* index into role_targets of the role being filled
    cards,           \* the local list `cards` / `synergy_cards`
    council_cards,   \* what the council (or LLM agent) returned for the role
    council_pool,    \* the candidate pool of the role's council call (ids)
    council_rankings,\* result["agent_rankings"] of the role's council call
    council_final,   \* result["final_ranking"] of the role's council call
    fallback_cards,  \* the local list `fallback` of the role
    selected_ids,    \* the set selected_ids
    current_cards,   \* the list current_cards
    cards_by_role,   \* the dict cards_by_role
    shortfall,       \* the shortfall accumulator
    synergy_target,  \* synergy_target (0 until computed)
    error,           \* the exception that escaped, "" if none
    deck_rows,       \* DeckCard rows (card_id, role) that were committed
    collect_attribution, \* the argument collect_attribution
    attributions,    \* the local list `attributions` / `synergy_attributions`
    sources_by_role, \* the dict sources_by_role
    v_pc, v_rankings, v_weights, v_strategy, v_top_k, v_final,
    g_doc,           \* the configuration document: [exists, data]
    g_overrides,     \* the overrides dict of the council call
    g_config,        \* what load_council_config returned
    g_graph,         \* what build_graph built: [agent_nodes, edges]
    g_pc,            \* "load", "build", "run", "done" or "failed"
    g_frontier,      \* the nodes of the current step of graph.invoke
    g_running,       \* the nodes that have started and not yet returned
    g_returned,      \* the nodes of the current step that have returned
    g_completed,     \* every node that has returned
    g_runs,          \* node -> number of times it was started
    g_before,        \* node -> the nodes that had returned when it started
    g_seen,          \* node -> state["agent_rankings"] as the node read it
    g_rankings,      \* the agent_rankings channel
    g_pending,       \* the writes of the current step, merged as they arrive
    g_final,         \* the final_ranking channel
    g_error,         \* the exception that escaped graph.invoke, "" if none
    m_pc, m_state, m_a, m_b, m_out,
    p_pc,            \* "input" or "done": one call of _build_candidate_pool
    p_role,          \* its argument role
    p_exclude,       \* its argument exclude_ids
    p_limit,         \* its argument limit
    p_out,           \* the ids of the cards it returned
    r_pc,            \* "input" or "done": one mapping of a final ranking
    r_candidates,    \* the candidate pool of the call (cards)
    r_final,         \* result["final_ranking"]
    r_count,         \* the argument count
    r_out            \* the ids of the cards the call returned

buildVars == <<corpus, commander, constraints, config, openai_api_key,
               pc, role_idx, cards, council_cards, council_pool, council_rankings,
               council_final, fallback_cards, selected_ids,
               current_cards, cards_by_role, shortfall, synergy_target, error,
               deck_rows, collect_attribution, attributions, sources_by_role>>
voteVars == <<v_pc, v_rankings, v_weights, v_strategy, v_top_k, v_final>>
graphVars == <<g_doc, g_overrides, g_config, g_graph, g_pc, g_frontier, g_running,
               g_returned, g_completed, g_runs, g_before, g_seen, g_rankings,
               g_pending, g_final, g_error>>
mergeVars == <<m_pc, m_state, m_a, m_b, m_out>>
poolVars == <<p_pc, p_role, p_exclude, p_limit, p_out>>
resolveVars == <<r_pc, r_candidates, r_final, r_count, r_out>>
callVars == <<poolVars, resolveVars>>
vars == <<buildVars, voteVars, graphVars, mergeVars, callVars>>

----------------------------------------------------------------------------
(* Bounds *)

\* number of corpus cards whose kind is drawn freely
MaxVar == 3
\* longest agent ranking handed to the aggregator in SpecVote
MaxRankLen == 3
\* largest voting.top_k handed to the aggregator in SpecVote
MaxTopK == 3

----------------------------------------------------------------------------
(* Generic helpers *)

\* a local variable: `value` is computed once and handed to Body
With(value, Body(_)) == CHOOSE out \in {Body(v) : v \in {value}} : TRUE

Max(a, b) == IF a >= b THEN a ELSE b
Min(a, b) == IF a <= b THEN a ELSE b

Take(s, n) == SubSeq(s, 1, Min(n, Len(s)))

\* data.get(key, default)
Get(d, key, default) == IF key \in DOMAIN d THEN d[key] ELSE default

Range(s) == {s[i] : i \in 1..Len(s)}

RECURSIVE SumSeq(_)
SumSeq(s) == IF s = <<>> THEN 0 ELSE s[1] + SumSeq(Tail(s))

NoDup(s) == \A i, j \in 1..Len(s) : i # j => s[i] # s[j]

RECURSIVE Concat(_)
Concat(ss) == IF ss = <<>> THEN <<>> ELSE ss[1] \o Concat(Tail(ss))

\* the names of the cards of the large corpus
BigNames == <<
    "S001", "S002", "S003", "S004", "S005", "S006", "S007", "S008", "S009", "S010",
    "S011", "S012", "S013", "S014", "S015", "S016", "S017", "S018", "S019", "S020",
    "S021", "S022", "S023", "S024", "S025", "S026", "S027", "S028", "S029", "S030",
    "S031", "S032", "S033", "S034", "S035", "S036", "S037", "S038", "S039", "S040",
    "S041", "S042", "S043", "S044", "S045", "S046", "S047", "S048", "S049", "S050",
    "S051", "S052", "S053", "S054", "S055", "S056", "S057", "S058", "S059", "S060",
    "S061", "S062", "S063", "S064", "S065", "S066", "S067", "S068", "S069", "S070",
    "S071", "S072", "S073", "S074", "S075", "S076", "S077", "S078", "S079", "S080",
    "S081", "S082", "S083", "S084", "S085", "S086", "S087", "S088", "S089", "S090",
    "S091", "S092", "S093", "S094", "S095", "S096", "S097", "S098", "S099", "S100",
    "S101" >>

\* Every name of the model, in Python's string order (code point order).
NameOrder == <<"", "Cmdr", "Plains">> \o BigNames
             \o <<"V1", "V2", "V3", "V4", "V5", "W1", "W2", "W3", "X", "Y", "Z">>

NameRank(n) == CHOOSE i \in 1..Len(NameOrder) : NameOrder[i] = n

\* sort key (-score, name): x sorts strictly before y
Before(x, y) ==
    \/ x.score > y.score
    \/ x.score = y.score /\ NameRank(x.name) < NameRank(y.name)

\* insert x into the sorted s behind every element it does not precede
InsertSorted(x, s) ==
    With({k \in 1..Len(s) : Before(x, s[k])} \cup {Len(s) + 1}, LAMBDA ks :
    With(CHOOSE k \in ks : \A m \in ks : k <= m, LAMBDA pos :
         SubSeq(s, 1, pos - 1) \o <<x>> \o SubSeq(s, pos, Len(s))))

\* Python's stable sort with key (-score, name)
RECURSIVE SortByScoreName(_)
SortByScoreName(s) ==
    IF s = <<>> THEN <<>>
    ELSE With(SortByScoreName(SubSeq(s, 1, Len(s) - 1)),
              LAMBDA sorted : InsertSorted(s[Len(s)], sorted))

----------------------------------------------------------------------------
(* The corpus *)

\* the roles classify_card_role can return (no branch returns "flex")
ClassifiedRoles == {"lands", "ramp", "draw", "removal", "wincons", "synergy"}

Card(id, name, type_line, role, legal, colors, theme, efficiency, budget, identity_score) ==
    [id |-> id, name |-> name, type_line |-> type_line, role |-> role,
     legal |-> legal, color_identity |-> colors, theme |-> theme,
     efficiency |-> efficiency, budget |-> budget,
     identity_score |-> identity_score]

\* cards every corpus holds: the commander's card, a basic land, three finishers
FixedCards == <<
    Card(1, "Cmdr",   "Legendary Creature", "synergy", TRUE, {"W"}, 9, 3, 5, 9),
    Card(2, "Plains", "Basic Land",         "lands",   TRUE, {},    0, 10, 9, 0),
    Card(3, "W1",     "Creature",           "wincons", TRUE, {},    9, 1, 5, 2),
    Card(4, "W2",     "Sorcery",            "wincons", TRUE, {"W"}, 5, 1, 2, 8),
    Card(5, "W3",     "Creature",           "wincons", TRUE, {},    1, 1, 9, 5) >>

VarNames == <<"V1", "V2", "V3", "V4", "V5">>

Kinds == {"finisher", "banned_finisher", "blue_finisher", "rock", "enabler", "reprint"}

\* the card of kind k in the n-th free slot of the corpus
KindCard(k, n) ==
    LET id == Len(FixedCards) + n
        nm == VarNames[n]
    IN  CASE k = "finisher"        -> Card(id, nm, "Creature", "wincons", TRUE, {}, 7, 1, 5, 9)
          [] k = "banned_finisher" -> Card(id, nm, "Sorcery", "wincons", FALSE, {}, 9, 1, 5, 9)
          [] k = "blue_finisher"   -> Card(id, nm, "Creature", "wincons", TRUE, {"U"}, 8, 1, 5, 7)
          [] k = "rock"            -> Card(id, nm, "Artifact", "ramp", TRUE, {}, 3, 3, 8, 4)
          [] k = "enabler"         -> Card(id, nm, "Enchantment", "synergy", TRUE, {"W"}, 8, 5, 5, 8)
          [] k = "reprint"         -> Card(id, "W1", "Creature", "wincons", TRUE, {}, 9, 1, 1, 2)

Corpora ==
    {FixedCards \o [n \in 1..MaxVar |-> KindCard(ks[n], n)] : ks \in [1..MaxVar -> Kinds]}

\* a corpus with more synergy cards than a candidate_pool entry lists; the
\* last of them has the best component scores
BigCorpus ==
    FixedCards \o [n \in 1..Len(BigNames) |->
        Card(Len(FixedCards) + n, BigNames[n], "Enchantment", "synergy", TRUE, {},
             IF n = Len(BigNames) THEN 9 ELSE 1, 1, 1, 1)]

CardOf(id) == corpus[id]

NamesOf(ids) == [i \in 1..Len(ids) |-> CardOf(ids[i]).name]

\* roles.py: the classification is a pure function of the card
classify_card_role(card) == card.role

\* archetypes.py: score of a card against the build's identity vector
score_card_for_identity(card) == card.identity_score

----------------------------------------------------------------------------
(* Council configuration *)

Preferences(t, e, b) == [theme_weight |-> t, efficiency_weight |-> e, budget_weight |-> b]

AgentConfig(id, type, weight, prefs) ==
    [agent_id |-> id, agent_type |-> type, weight |-> weight, preferences |-> prefs]

CouncilConfig(strategy, top_k, routing, agent_ids, adjudicator, agents) ==
    [voting |-> [strategy |-> strategy, top_k |-> top_k],
     routing |-> [strategy |-> routing, agent_ids |-> agent_ids,
                  debate_adjudicator_id |-> adjudicator],
     agents |-> agents]

\* VotingConfig.top_k default
DefaultTopK == 25

DefaultPreferences == Preferences(2, 1, 1)

DefaultAgents == <<
    AgentConfig("heuristic-core", "heuristic", 1, DefaultPreferences),
    AgentConfig("llm-theme", "llm", 1, DefaultPreferences),
    AgentConfig("llm-budget", "llm", 1, DefaultPreferences) >>

DEFAULT_CONFIG == CouncilConfig("borda", DefaultTopK, "parallel", <<>>, "", DefaultAgents)

HThemeAgent == AgentConfig("h-theme", "heuristic", 2, Preferences(4, 0, 0))
HBudgetAgent == AgentConfig("h-budget", "heuristic", 1, Preferences(0, 0, 4))
HZeroAgent == AgentConfig("h-zero", "oracle", 1, Preferences(0, 0, 0))

\* the configurations load_council_config hands to the builds of the model
ConfigFamily == {
    DEFAULT_CONFIG,
    CouncilConfig("borda", DefaultTopK, "parallel", <<"heuristic-core", "nobody">>, "", DefaultAgents),
    CouncilConfig("borda", DefaultTopK, "parallel", <<>>, "", <<DefaultAgents[1]>>),
    CouncilConfig("borda", 2, "parallel", <<>>, "", <<DefaultAgents[1]>>),
    CouncilConfig("majority", 4, "parallel", <<>>, "", <<DefaultAgents[1]>>),
    CouncilConfig("borda", 2, "parallel", <<>>, "", <<HThemeAgent, HBudgetAgent>>),
    CouncilConfig("majority", 2, "sequential", <<>>, "", <<HBudgetAgent, HThemeAgent, HZeroAgent>>),
    CouncilConfig("borda", 4, "sequential", <<>>, "", <<HThemeAgent, DefaultAgents[2]>>),
    CouncilConfig("copeland", 2, "debate", <<>>, "", <<HThemeAgent, HBudgetAgent, DefaultAgents[2], HZeroAgent>>),
    CouncilConfig("borda", 4, "debate", <<>>, "llm-theme", <<HThemeAgent, HBudgetAgent, DefaultAgents[2]>>),
    CouncilConfig("borda", 4, "round-robin", <<>>, "", <<HZeroAgent>>) }

HasLlmAgent(cfg) == \E i \in 1..Len(cfg.agents) : cfg.agents[i].agent_type = "llm"

----------------------------------------------------------------------------
(* Candidate scans: council/graph.py and selector.py *)

\* query.limit(5000)
QueryLimit == 5000

\* session.query(Card).filter(Card.id.notin_(exclude_ids)).limit(5000).all()
QueryWindow(exclude_ids) ==
    Take(SelectSeq(corpus, LAMBDA c : c.id \notin exclude_ids), QueryLimit)

\* Eligible without the legality test
EligibleAnyLegality(card, role, color_identity) ==
    /\ card.color_identity \subseteq color_identity
    /\ classify_card_role(card) = role

\* the three filters both scans apply to a card of the window
Eligible(card, role, color_identity) ==
    /\ card.legal
    /\ card.color_identity \subseteq color_identity
    /\ classify_card_role(card) = role

\* append eligible cards in scan order, break once `limit` are collected
\* (the test follows the append, so a first card is kept whatever the limit)
ScanUntil(window, role, color_identity, limit) ==
    Take(SelectSeq(window, LAMBDA c : Eligible(c, role, color_identity)), Max(limit, 1))

\* _build_candidate_pool with the limit applied to the scanned cards
\* instead of the eligible ones
_build_candidate_pool_scanned(role, color_identity, exclude_ids, limit) ==
    SelectSeq(Take(QueryWindow(exclude_ids), Max(limit, 1)),
              LAMBDA c : Eligible(c, role, color_identity))

_build_candidate_pool(role, color_identity, exclude_ids, limit) ==
    ScanUntil(QueryWindow(exclude_ids), role, color_identity, limit)

\* the identity branch (the deck builder always passes an identity):
\* ids of the `count` best eligible cards by (-identity score, name)
select_cards_for_role(role, color_identity, count, exclude_ids) ==
    With(ScanUntil(QueryWindow(exclude_ids), role, color_identity, count * 3),
         LAMBDA eligible_cards :
    With(SortByScoreName([i \in 1..Len(eligible_cards) |->
                            [score |-> score_card_for_identity(eligible_cards[i]),
                             name |-> eligible_cards[i].name,
                             id |-> eligible_cards[i].id]]),
         LAMBDA sorted :
         [i \in 1..Min(Max(count, 0), Len(sorted)) |-> sorted[i].id]))

----------------------------------------------------------------------------
(* Agents: council/agents.py *)

\* (weighted + role_bonus) * 10 * total_weight, an integer with the order of
\* the float the code sorts by
HeuristicScore(card, role, preferences) ==
    LET sum == preferences.theme_weight + preferences.efficiency_weight
               + preferences.budget_weight
        total_weight == IF sum <= 0 THEN 4 ELSE sum
        role_bonus == IF classify_card_role(card) = role THEN 1 ELSE 0
    IN  card.theme * preferences.theme_weight
        + card.efficiency * preferences.efficiency_weight
        + card.budget * preferences.budget_weight
        + role_bonus * total_weight

\* candidate names by (-score, name)
heuristic_rank_candidates(candidates, role, preferences) ==
    With(SortByScoreName([i \in 1..Len(candidates) |->
                            [score |-> HeuristicScore(candidates[i], role, preferences),
                             name |-> candidates[i].name]]),
         LAMBDA sorted : [i \in 1..Len(sorted) |-> sorted[i].name])

\* what llm.invoke can do: raise (network failure, timeout) or return content
LlmReplies == {
    [kind |-> "raise", names |-> <<>>],
    [kind |-> "empty", names |-> <<>>],
    [kind |-> "malformed", names |-> <<>>],
    [kind |-> "not_array", names |-> <<>>],
    [kind |-> "array", names |-> <<"X", "W1", "", "W1">>],
    [kind |-> "array", names |-> <<"W3", "W2">>] }

\* a JSON array gives its non-blank strings, anything else gives []
_parse_ranked_names(reply) ==
    IF reply.kind = "array" THEN SelectSeq(reply.names, LAMBDA n : n # "") ELSE <<>>

\* [raised, ranking]: no key -> []; the call is not guarded by a try
llm_rank_candidates(reply) ==
    IF ~openai_api_key THEN [raised |-> "", ranking |-> <<>>]
    ELSE IF reply.kind = "raise" THEN [raised |-> "LLMError", ranking |-> <<>>]
    ELSE [raised |-> "", ranking |-> _parse_ranked_names(reply)]

----------------------------------------------------------------------------
(* Voting: council/voting.py.  A rankings map is a function from agent ids  *)
(* to sequences of names, a weight map a function from agent ids to numbers *)

RECURSIVE SumOver(_, _)
SumOver(f, S) ==
    IF S = {} THEN 0
    ELSE LET x == CHOOSE y \in S : TRUE IN f[x] + SumOver(f, S \ {x})

\* drop empty rankings, and empty names inside the others
_normalize_rankings(rankings) ==
    LET kept == {a \in DOMAIN rankings : rankings[a] # <<>>}
    IN  [a \in kept |-> SelectSeq(rankings[a], LAMBDA n : n # "")]

\* agent_weights.get(agent_id, 1.0)
WeightOf(agent_weights, agent_id) ==
    IF agent_id \in DOMAIN agent_weights THEN agent_weights[agent_id] ELSE 1

\* the names that received a score: those within some ranking's first top_k
ScoredNames(normalized, top_k) ==
    UNION {Range(Take(normalized[a], top_k)) : a \in DOMAIN normalized}

\* sorted(scores.items(), key=lambda item: (-item[1], item[0])), names only
RankByScore(names, score) ==
    With(SelectSeq(NameOrder, LAMBDA n : n \in names), LAMBDA listed :
    With(SortByScoreName([i \in 1..Len(listed) |->
                            [score |-> score[listed[i]], name |-> listed[i]]]),
         LAMBDA sorted : [i \in 1..Len(sorted) |-> sorted[i].name]))

\* BordaScore counting down from the length of the truncated ranking
BordaScoreTruncated(normalized, agent_weights, top_k, name) ==
    LET perAgent == [a \in DOMAIN normalized |->
            LET head == Take(normalized[a], top_k)
            IN  SumSeq([i \in 1..Len(head) |->
                    IF head[i] = name
                    THEN (Len(head) - (i - 1)) * WeightOf(agent_weights, a) ELSE 0])]
    IN  SumOver(perAgent, DOMAIN normalized)

\* scores[name] += (total - idx) * weight over ranked[:top_k]
BordaScore(normalized, agent_weights, top_k, name) ==
    LET perAgent == [a \in DOMAIN normalized |->
            LET ranked == normalized[a]
                total == Len(ranked)
                head == Take(ranked, top_k)
            IN  SumSeq([i \in 1..Len(head) |->
                    IF head[i] = name
                    THEN (total - (i - 1)) * WeightOf(agent_weights, a) ELSE 0])]
    IN  SumOver(perAgent, DOMAIN normalized)

\* borda_count returning one entry per scored entry of the first ranking
\* instead of one per name
borda_count_per_entry(rankings, agent_weights, top_k) ==
    With(_normalize_rankings(rankings), LAMBDA normalized :
         IF DOMAIN normalized = {} THEN <<>>
         ELSE Take(normalized[CHOOSE a \in DOMAIN normalized : TRUE], top_k))

borda_count(rankings, agent_weights, top_k) ==
    With(_normalize_rankings(rankings), LAMBDA normalized :
    With(ScoredNames(normalized, top_k), LAMBDA names :
         RankByScore(names, [n \in names |-> BordaScore(normalized, agent_weights, top_k, n)])))

\* scores[name] += weight for every entry of ranked[:top_k]
MajorityScore(normalized, agent_weights, top_k, name) ==
    LET perAgent == [a \in DOMAIN normalized |->
            LET head == Take(normalized[a], top_k)
            IN  SumSeq([i \in 1..Len(head) |->
                    IF head[i] = name THEN WeightOf(agent_weights, a) ELSE 0])]
    IN  SumOver(perAgent, DOMAIN normalized)

majority_vote(rankings, agent_weights, top_k) ==
    With(_normalize_rankings(rankings), LAMBDA normalized :
    With(ScoredNames(normalized, top_k), LAMBDA names :
         RankByScore(names, [n \in names |-> MajorityScore(normalized, agent_weights, top_k, n)])))

aggregate_rankings(rankings, agent_weights, strategy, top_k) ==
    IF strategy = "majority" THEN majority_vote(rankings, agent_weights, top_k)
    ELSE borda_count(rankings, agent_weights, top_k)

----------------------------------------------------------------------------
(* Routing: council/routing.py *)

EmptyMap == [k \in {} |-> <<>>]

\* _merge_rankings keeping the value a key already has
_merge_rankings_keep(existing, incoming) ==
    [k \in (DOMAIN existing) \cup (DOMAIN incoming) |->
        IF k \in DOMAIN existing THEN existing[k] ELSE incoming[k]]

\* merged = dict(existing); merged.update(incoming)
_merge_rankings(existing, incoming) ==
    [k \in (DOMAIN existing) \cup (DOMAIN incoming) |->
        IF k \in DOMAIN incoming THEN incoming[k] ELSE existing[k]]

\* agent_map = {agent.agent_id: agent ...}: the last agent of an id wins
AgentMapGet(agents, agent_id) ==
    LET is == {i \in 1..Len(agents) : agents[i].agent_id = agent_id}
    IN  agents[CHOOSE i \in is : \A j \in is : j <= i]

AgentIds(agents) == {agents[i].agent_id : i \in 1..Len(agents)}

\* _resolve_agents keeping the declaration order of the configured agents
_resolve_agents_declared(cfg) ==
    IF cfg.routing.agent_ids = <<>> THEN cfg.agents
    ELSE SelectSeq(cfg.agents, LAMBDA a : a.agent_id \in Range(cfg.routing.agent_ids))

_resolve_agents(cfg) ==
    IF cfg.routing.agent_ids = <<>> THEN cfg.agents
    ELSE LET known == SelectSeq(cfg.routing.agent_ids,
                                LAMBDA id : id \in AgentIds(cfg.agents))
         IN  [i \in 1..Len(known) |-> AgentMapGet(cfg.agents, known[i])]

StartNode == <<"start">>
AggregateNode == <<"aggregate">>
EndNode == <<"END">>
NodeOf(agent) == <<"agent", agent.agent_id>>

\* a graph: the agents that got a node, in the order added, and the edges
_build_parallel(cfg, agents) ==
    [agent_nodes |-> agents,
     edges |-> {<<StartNode, NodeOf(agents[i])>> : i \in 1..Len(agents)}
               \cup {<<NodeOf(agents[i]), AggregateNode>> : i \in 1..Len(agents)}
               \cup {<<AggregateNode, EndNode>>}]

\* _build_sequential with every agent hanging off start
_build_sequential_fanout(cfg, agents) == _build_parallel(cfg, agents)

_build_sequential(cfg, agents) ==
    LET previous(i) == IF i = 1 THEN StartNode ELSE NodeOf(agents[i - 1])
        last == IF agents = <<>> THEN StartNode ELSE NodeOf(agents[Len(agents)])
    IN  [agent_nodes |-> agents,
         edges |-> {<<previous(i), NodeOf(agents[i])>> : i \in 1..Len(agents)}
                   \cup {<<last, AggregateNode>>, <<AggregateNode, EndNode>>}]

\* DebateAdjudicator defaulting to the last agent from two agents on
DebateAdjudicatorEager(cfg, agents) ==
    LET named == IF cfg.routing.debate_adjudicator_id = "" THEN <<>>
                 ELSE Take(SelectSeq(agents, LAMBDA a :
                        a.agent_id = cfg.routing.debate_adjudicator_id), 1)
    IN  IF named = <<>> /\ Len(agents) >= 2 THEN <<agents[Len(agents)]>> ELSE named

\* the adjudicator as a sequence of at most one agent
DebateAdjudicator(cfg, agents) ==
    LET named == IF cfg.routing.debate_adjudicator_id = "" THEN <<>>
                 ELSE Take(SelectSeq(agents, LAMBDA a :
                        a.agent_id = cfg.routing.debate_adjudicator_id), 1)
    IN  IF named = <<>> /\ Len(agents) > 2 THEN <<agents[Len(agents)]>> ELSE named

DebateDebaters(cfg, agents) ==
    LET adjudicator == DebateAdjudicator(cfg, agents)
        others == IF adjudicator # <<>>
                  THEN SelectSeq(agents, LAMBDA a : a.agent_id # adjudicator[1].agent_id)
                  ELSE agents
    IN  Take(others, 2)

\* _build_debate without the edges into the adjudicator
_build_debate_flat(cfg, agents) ==
    _build_parallel(cfg, DebateDebaters(cfg, agents) \o DebateAdjudicator(cfg, agents))

_build_debate(cfg, agents) ==
    LET adjudicator == DebateAdjudicator(cfg, agents)
        debaters == DebateDebaters(cfg, agents)
        fromStart == {<<StartNode, NodeOf(debaters[i])>> : i \in 1..Len(debaters)}
    IN  IF adjudicator # <<>>
        THEN [agent_nodes |-> debaters \o adjudicator,
              edges |-> fromStart
                  \cup {<<NodeOf(debaters[i]), NodeOf(adjudicator[1])>> : i \in 1..Len(debaters)}
                  \cup {<<NodeOf(adjudicator[1]), AggregateNode>>, <<AggregateNode, EndNode>>}]
        ELSE [agent_nodes |-> debaters,
              edges |-> fromStart
                  \cup {<<NodeOf(debaters[i]), AggregateNode>> : i \in 1..Len(debaters)}
                  \cup {<<AggregateNode, EndNode>>}]

\* SelectedAgents without `if not agents: agents = list(self.config.agents)`
SelectedAgentsResolved(cfg) == _resolve_agents(cfg)

\* build_graph lines 192-194: the agents handed to the strategy builder
SelectedAgents(cfg) ==
    With(_resolve_agents(cfg), LAMBDA resolved :
         IF resolved = <<>> THEN cfg.agents ELSE resolved)

\* build_graph with the sequential builder as the default
build_graph_sequential_default(cfg) ==
    With(SelectedAgents(cfg), LAMBDA agents :
         CASE cfg.routing.strategy = "parallel" -> _build_parallel(cfg, agents)
           [] cfg.routing.strategy = "debate" -> _build_debate(cfg, agents)
           [] OTHER -> _build_sequential(cfg, agents))

\* CouncilRouter.build_graph
build_graph(cfg) ==
    With(SelectedAgents(cfg), LAMBDA agents :
         CASE cfg.routing.strategy = "sequential" -> _build_sequential(cfg, agents)
           [] cfg.routing.strategy = "debate" -> _build_debate(cfg, agents)
           [] OTHER -> _build_parallel(cfg, agents))

\* the keys of the state dict graph.invoke is given
CouncilStateKeys == {"role", "commander_name", "commander_text", "deck_cards",
                     "candidates", "identity", "agent_rankings", "final_ranking",
                     "config", "trace_id"}

\* the key the llm branch of the agent node reads for the deck so far
DeckCardsKey == "XXdeck_cardsXX"

\* run() of _agent_node: [raised, ranking].  The llm branch reads
\* state[DeckCardsKey] while building the arguments of llm_rank_candidates.
AgentNodeRun(cfg, agent_id, agent_type, candidates, role, reply) ==
    With(SelectSeq(cfg.agents, LAMBDA a : a.agent_id = agent_id), LAMBDA found :
    IF found = <<>> THEN [raised |-> "", ranking |-> <<>>]
    ELSE With(IF agent_type # "llm" THEN [raised |-> "", ranking |-> <<>>]
              ELSE IF DeckCardsKey \notin CouncilStateKeys
                   THEN [raised |-> "KeyError", ranking |-> <<>>]
                   ELSE llm_rank_candidates(reply),
              LAMBDA ranked :
              \* `if not ranked`, and the heuristic and else branches
              IF ranked.raised = "" /\ ranked.ranking = <<>>
              THEN [raised |-> "",
                    ranking |-> heuristic_rank_candidates(candidates, role,
                                                          found[1].preferences)]
              ELSE ranked))

\* the agents whose node gets as far as llm.invoke
LlmCallers(cfg) ==
    LET nodes == build_graph(cfg).agent_nodes
    IN  {nodes[i].agent_id : i \in {j \in 1..Len(nodes) :
            /\ nodes[j].agent_type = "llm"
            /\ DeckCardsKey \in CouncilStateKeys
            /\ openai_api_key}}

NoReply == [kind |-> "none", names |-> <<>>]

\* _aggregate_node scoring only the entry of the last agent node
AggregateNodeRunLastOnly(cfg, agent_rankings) ==
    With(build_graph(cfg).agent_nodes, LAMBDA nodes :
         aggregate_rankings([k \in DOMAIN agent_rankings \cap {nodes[Len(nodes)].agent_id} |->
                                agent_rankings[k]],
                            [id \in AgentIds(cfg.agents) |-> AgentMapGet(cfg.agents, id).weight],
                            cfg.voting.strategy, cfg.voting.top_k))

\* _aggregate_node
AggregateNodeRun(cfg, agent_rankings) ==
    aggregate_rankings(agent_rankings,
                       [id \in AgentIds(cfg.agents) |-> AgentMapGet(cfg.agents, id).weight],
                       cfg.voting.strategy, cfg.voting.top_k)

\* graph.invoke: every agent node runs, its output is merged into
\* agent_rankings, then aggregate runs; an exception of a node escapes
RECURSIVE MergeAll(_, _)
MergeAll(outputs, n) ==
    IF n = 0 THEN EmptyMap
    ELSE _merge_rankings(MergeAll(outputs, n - 1), outputs[n])

GraphInvoke(cfg, candidates, role, replies) ==
    With(build_graph(cfg).agent_nodes, LAMBDA nodes :
    With([i \in 1..Len(nodes) |->
            AgentNodeRun(cfg, nodes[i].agent_id, nodes[i].agent_type,
                         candidates, role,
                         IF nodes[i].agent_id \in DOMAIN replies
                         THEN replies[nodes[i].agent_id] ELSE NoReply)],
         LAMBDA runs :
    With({i \in 1..Len(nodes) : runs[i].raised # ""}, LAMBDA failed :
    IF failed # {}
    THEN [raised |-> runs[CHOOSE i \in failed : \A j \in failed : i <= j].raised,
          agent_rankings |-> EmptyMap, final_ranking |-> <<>>]
    ELSE With(MergeAll([i \in 1..Len(nodes) |->
                          [k \in {nodes[i].agent_id} |-> runs[i].ranking]],
                       Len(nodes)),
              LAMBDA agent_rankings :
              [raised |-> "", agent_rankings |-> agent_rankings,
               final_ranking |-> AggregateNodeRun(cfg, agent_rankings)]))))

----------------------------------------------------------------------------
(* Council call: council/graph.py *)

\* candidate_map = {card.name: card ...}: the last card of a name wins
CandidateMapGet(candidates, name) ==
    LET is == {i \in 1..Len(candidates) : candidates[i].name = name}
    IN  candidates[CHOOSE i \in is : \A j \in is : j <= i].id

CandidateNames(candidates) == {candidates[i].name : i \in 1..Len(candidates)}

\* RankedCards without the filter `if name in candidate_map`: a name the
\* map does not hold makes the lookup fail and nothing is returned
RankedCardsUnfiltered(candidates, ranked_names, count) ==
    IF Range(ranked_names) \subseteq CandidateNames(candidates)
    THEN Take([i \in 1..Len(ranked_names) |-> CandidateMapGet(candidates, ranked_names[i])],
              count)
    ELSE <<>>

\* graph.py lines 153-156: ranked_cards[:count], as ids
RankedCards(candidates, ranked_names, count) ==
    With(SelectSeq(ranked_names, LAMBDA n : n \in CandidateNames(candidates)),
         LAMBDA known :
         Take([i \in 1..Len(known) |-> CandidateMapGet(candidates, known[i])], count))

\* [raised, cards, candidates, agent_rankings, final_ranking]
select_cards_with_council(role, count, exclude_ids, replies) ==
    With(_build_candidate_pool(role, commander.color_identity, exclude_ids,
                               Max(count * 6, config.voting.top_k)),
         LAMBDA candidates :
    IF candidates = <<>>
    THEN [raised |-> "", cards |-> <<>>, candidates |-> <<>>,
          agent_rankings |-> EmptyMap, final_ranking |-> <<>>]
    ELSE With(GraphInvoke(config, candidates, role, replies), LAMBDA result :
              [raised |-> result.raised,
               cards |-> IF result.raised # "" THEN <<>>
                         ELSE RankedCards(candidates, result.final_ranking, count),
               candidates |-> [i \in 1..Len(candidates) |-> candidates[i].id],
               agent_rankings |-> result.agent_rankings,
               final_ranking |-> result.final_ranking]))

\* deck_builder.py passes trace_id=... to suggest_cards_for_role and to
\* suggest_cards_with_attribution, whose signatures take no such parameter:
\* the call raises before the body runs
suggest_cards_for_role(role, count, exclude_ids) ==
    [raised |-> "TypeError", cards |-> <<>>]

----------------------------------------------------------------------------
(* The build: engine/deck_builder.py, _generate_deck_internal *)

role_targets == <<
    [role |-> "ramp", target |-> 10],
    [role |-> "draw", target |-> 10],
    [role |-> "removal", target |-> 10],
    [role |-> "wincons", target |-> 5],
    [role |-> "flex", target |-> 3] >>

\* "we need 24 more + shortfall"
SynergyBase == 24

FixedRoles == {role_targets[i].role : i \in 1..Len(role_targets)}
DeckRoles == FixedRoles \cup {"synergy"}

\* the role and target of the step the build is in
CurrentRole == IF pc \in {"synergy_select", "synergy_fallback"}
               THEN "synergy" ELSE role_targets[role_idx].role
CurrentTarget == IF pc = "synergy_fallback"
                 THEN synergy_target ELSE role_targets[role_idx].target

RoleList(r) == IF r \in DOMAIN cards_by_role THEN cards_by_role[r] ELSE <<>>

\* lands.py needs_command_tower / selector.py select_command_tower
CommandTowerIds ==
    LET towers == SelectSeq(corpus, LAMBDA c : c.name = "Command Tower")
    IN  IF Cardinality(commander.color_identity) > 1 /\ towers # <<>>
        THEN {towers[1].id} ELSE {}

\* lands.py calculate_land_distribution: the colours that get basics
LandColors == IF commander.color_identity = {} THEN {"C"} ELSE commander.color_identity

BasicName(color) ==
    CASE color = "W" -> "Plains" [] color = "U" -> "Island" [] color = "B" -> "Swamp"
      [] color = "R" -> "Mountain" [] color = "G" -> "Forest" [] OTHER -> "Wastes"

\* selector.py select_basic_lands: the first basic of each colour's name
BasicLandIds ==
    UNION {LET found == SelectSeq(corpus, LAMBDA c :
                            c.name = BasicName(color) /\ c.type_line = "Basic Land")
           IN  IF found = <<>> THEN {} ELSE {found[1].id} : color \in LandColors}

BuildFlags == {[use_council |-> TRUE, use_llm_agent |-> FALSE],
               [use_council |-> TRUE, use_llm_agent |-> TRUE],
               [use_council |-> FALSE, use_llm_agent |-> TRUE],
               [use_council |-> FALSE, use_llm_agent |-> FALSE]}

VoteIdle ==
    /\ v_pc = "idle" /\ v_rankings = EmptyMap /\ v_weights = EmptyMap
    /\ v_strategy = "" /\ v_top_k = 0 /\ v_final = <<>>

GraphIdle ==
    /\ g_doc = [exists |-> FALSE, data |-> EmptyMap]
    /\ g_overrides = EmptyMap
    /\ g_config = DEFAULT_CONFIG
    /\ g_graph = [agent_nodes |-> <<>>, edges |-> {}]
    /\ g_pc = "idle"
    /\ g_frontier = {} /\ g_running = {} /\ g_returned = {} /\ g_completed = {}
    /\ g_runs = EmptyMap /\ g_before = EmptyMap /\ g_seen = EmptyMap
    /\ g_rankings = EmptyMap /\ g_pending = EmptyMap
    /\ g_final = <<>> /\ g_error = ""

MergeIdle ==
    /\ m_pc = "idle" /\ m_state = EmptyMap /\ m_a = EmptyMap /\ m_b = EmptyMap
    /\ m_out = EmptyMap

CallIdle ==
    /\ p_pc = "idle" /\ p_role = "" /\ p_exclude = {} /\ p_limit = 0 /\ p_out = <<>>
    /\ r_pc = "idle" /\ r_candidates = <<>> /\ r_final = <<>> /\ r_count = 0
    /\ r_out = <<>>

Init ==
    /\ corpus \in Corpora \cup {BigCorpus}
    /\ commander \in {[card_id |-> 1, color_identity |-> ci] : ci \in {{"W"}, {"W", "U"}}}
    /\ constraints \in BuildFlags
    /\ config \in IF constraints.use_council /\ ~constraints.use_llm_agent
                  THEN ConfigFamily ELSE {DEFAULT_CONFIG}
    /\ openai_api_key \in IF constraints.use_council /\ HasLlmAgent(config)
                          THEN BOOLEAN ELSE {FALSE}
    /\ pc = "start"
    /\ role_idx = 1
    /\ cards = <<>>
    /\ council_cards = <<>>
    /\ council_pool = <<>>
    /\ council_rankings = EmptyMap
    /\ council_final = <<>>
    /\ fallback_cards = <<>>
    /\ selected_ids = {}
    /\ current_cards = <<>>
    /\ cards_by_role = EmptyMap
    /\ shortfall = 0
    /\ synergy_target = 0
    /\ error = ""
    /\ deck_rows = <<>>
    /\ collect_attribution \in BOOLEAN
    /\ attributions = <<>>
    /\ sources_by_role = EmptyMap
    /\ VoteIdle
    /\ GraphIdle
    /\ MergeIdle
    /\ CallIdle

\* SeedDeck without selected_ids.add(commander_card.id)
SeedDeckCommanderFree ==
    /\ pc = "start"
    /\ selected_ids' = CommandTowerIds \cup BasicLandIds
    /\ current_cards' = <<commander.card_id>>
    /\ pc' = "select"
    /\ UNCHANGED <<council_pool, council_rankings, council_final>>
    /\ UNCHANGED <<attributions, sources_by_role>>
    /\ UNCHANGED <<corpus, commander, constraints, config, openai_api_key,
                   collect_attribution, role_idx,
                   cards, council_cards, fallback_cards, cards_by_role, shortfall,
                   synergy_target, error, deck_rows, voteVars, graphVars, mergeVars, callVars>>

\* lines 45-130: the commander and the lands are seeded
SeedDeck ==
    /\ pc = "start"
    /\ selected_ids' = {commander.card_id} \cup CommandTowerIds \cup BasicLandIds
    /\ current_cards' = <<commander.card_id>>
    /\ pc' = "select"
    /\ UNCHANGED <<council_pool, council_rankings, council_final>>
    /\ UNCHANGED <<attributions, sources_by_role>>
    /\ UNCHANGED <<corpus, commander, constraints, config, openai_api_key,
                   collect_attribution, role_idx,
                   cards, council_cards, fallback_cards, cards_by_role, shortfall,
                   synergy_target, error, deck_rows, voteVars, graphVars, mergeVars, callVars>>

\* max_attribution_cards = min(pool_size, 100)
AttributionCap == 100

\* graph.py lines 190-201: the candidate_pool entry of a council call
CouncilAttribution(candidates, count) ==
    [source_type |-> "candidate_pool",
     card_ids |-> Take(candidates, Min(Max(count * 6, config.voting.top_k), AttributionCap))]

\* deck_builder.py lines 198-205: the fallback_selection entry
FallbackAttribution(fallback) ==
    [source_type |-> "fallback_selection", card_ids |-> fallback]

\* what the council, the LLM agent or neither hands back for (role, count)
SourceCards(role, count, replies) ==
    IF constraints.use_council
    THEN With(select_cards_with_council(role, count, selected_ids, replies), LAMBDA r :
              [raised |-> r.raised, cards |-> r.cards, candidates |-> r.candidates,
               agent_rankings |-> r.agent_rankings, final_ranking |-> r.final_ranking,
               attributions |-> IF collect_attribution /\ r.candidates # <<>>
                                THEN <<CouncilAttribution(r.candidates, count)>>
                                ELSE <<>>])
    ELSE [raised |-> IF constraints.use_llm_agent
                     THEN suggest_cards_for_role(role, count, selected_ids).raised
                     ELSE "",
          cards |-> <<>>, candidates |-> <<>>, agent_rankings |-> EmptyMap,
          final_ranking |-> <<>>, attributions |-> <<>>]

\* lines 133-184: cards = [] and the council / LLM agent call of a fixed role
SelectRole ==
    /\ pc = "select"
    /\ \E replies \in [LlmCallers(config) -> LlmReplies] :
          \E r \in {SourceCards(CurrentRole, CurrentTarget, replies)} :
              IF r.raised # ""
              THEN /\ pc' = "failed" /\ error' = r.raised
                   /\ UNCHANGED <<cards, council_cards, council_pool,
                                  council_rankings, council_final, attributions>>
              ELSE /\ pc' = "fallback" /\ cards' = r.cards /\ council_cards' = r.cards
                   /\ council_pool' = r.candidates
                   /\ council_rankings' = r.agent_rankings
                   /\ council_final' = r.final_ranking
                   /\ attributions' = r.attributions
                   /\ UNCHANGED error
    /\ fallback_cards' = <<>>
    /\ UNCHANGED sources_by_role
    /\ UNCHANGED <<corpus, commander, constraints, config, openai_api_key,
                   collect_attribution, role_idx,
                   selected_ids, current_cards, cards_by_role, shortfall,
                   synergy_target, deck_rows, voteVars, graphVars, mergeVars, callVars>>

\* FallbackFill asking for the whole target instead of what is missing
FallbackFillTarget(role, target) ==
    IF Len(cards) < target
    THEN select_cards_for_role(role, commander.color_identity, target, selected_ids)
    ELSE <<>>

\* lines 186-196 and 272-282: the fallback fills what is missing
FallbackFill(role, target) ==
    IF Len(cards) < target
    THEN select_cards_for_role(role, commander.color_identity,
                               target - Len(cards), selected_ids)
    ELSE <<>>

FallbackRole ==
    /\ pc = "fallback"
    /\ fallback_cards' = FallbackFill(CurrentRole, CurrentTarget)
    /\ cards' = cards \o fallback_cards'
    /\ pc' = "commit"
    /\ UNCHANGED <<council_pool, council_rankings, council_final>>
    /\ attributions' = IF Len(cards) < CurrentTarget /\ collect_attribution
                       THEN Append(attributions, FallbackAttribution(fallback_cards'))
                       ELSE attributions
    /\ UNCHANGED sources_by_role
    /\ UNCHANGED <<corpus, commander, constraints, config, openai_api_key,
                   collect_attribution, role_idx,
                   council_cards, selected_ids, current_cards, cards_by_role,
                   shortfall, synergy_target, error, deck_rows, voteVars, graphVars, mergeVars, callVars>>

\* ShortfallAfter with `=` in place of `+=`
ShortfallAssigned(target) ==
    IF Len(cards) < target THEN target - Len(cards) ELSE shortfall

\* lines 213-214
ShortfallAfter(target) ==
    IF Len(cards) < target THEN shortfall + (target - Len(cards)) ELSE shortfall

\* CommitRole storing the running deck list instead of the role's cards
CommitRoleDeckList ==
    /\ pc = "commit"
    /\ current_cards' = current_cards \o cards
    /\ cards_by_role' = _merge_rankings(cards_by_role, [r \in {CurrentRole} |-> current_cards'])
    /\ selected_ids' = selected_ids \cup Range(cards)
    /\ shortfall' = ShortfallAfter(CurrentTarget)
    /\ IF role_idx < Len(role_targets)
       THEN /\ role_idx' = role_idx + 1 /\ pc' = "select"
       ELSE /\ role_idx' = role_idx /\ pc' = "synergy_select"
    /\ UNCHANGED <<council_pool, council_rankings, council_final>>
    /\ sources_by_role' = IF collect_attribution /\ attributions # <<>>
                          THEN _merge_rankings(sources_by_role,
                                   [r \in {CurrentRole} |-> Get(sources_by_role, CurrentRole, <<>>)
                                                             \o attributions])
                          ELSE sources_by_role
    /\ UNCHANGED attributions
    /\ UNCHANGED <<corpus, commander, constraints, config, openai_api_key,
                   collect_attribution, cards,
                   council_cards, fallback_cards, synergy_target, error, deck_rows,
                   voteVars, graphVars, mergeVars, callVars>>

\* lines 208-214: the role's list is stored, its cards are selected
CommitRole ==
    /\ pc = "commit"
    /\ cards_by_role' = _merge_rankings(cards_by_role, [r \in {CurrentRole} |-> cards])
    /\ selected_ids' = selected_ids \cup Range(cards)
    /\ current_cards' = current_cards \o cards
    /\ shortfall' = ShortfallAfter(CurrentTarget)
    /\ IF role_idx < Len(role_targets)
       THEN /\ role_idx' = role_idx + 1 /\ pc' = "select"
       ELSE /\ role_idx' = role_idx /\ pc' = "synergy_select"
    /\ UNCHANGED <<council_pool, council_rankings, council_final>>
    /\ sources_by_role' = IF collect_attribution /\ attributions # <<>>
                          THEN _merge_rankings(sources_by_role,
                                   [r \in {CurrentRole} |-> Get(sources_by_role, CurrentRole, <<>>)
                                                             \o attributions])
                          ELSE sources_by_role
    /\ UNCHANGED attributions
    /\ UNCHANGED <<corpus, commander, constraints, config, openai_api_key,
                   collect_attribution, cards,
                   council_cards, fallback_cards, synergy_target, error, deck_rows,
                   voteVars, graphVars, mergeVars, callVars>>

\* line 218
SynergyTarget == SynergyBase + shortfall

\* lines 216-270: the synergy target and the council / LLM agent call
SelectSynergy ==
    /\ pc = "synergy_select"
    /\ synergy_target' = SynergyTarget
    /\ \E replies \in [LlmCallers(config) -> LlmReplies] :
          \E r \in {SourceCards("synergy", synergy_target', replies)} :
              IF r.raised # ""
              THEN /\ pc' = "failed" /\ error' = r.raised
                   /\ UNCHANGED <<cards, council_cards, council_pool,
                                  council_rankings, council_final, attributions>>
              ELSE /\ pc' = "synergy_fallback" /\ cards' = r.cards
                   /\ council_cards' = r.cards
                   /\ council_pool' = r.candidates
                   /\ council_rankings' = r.agent_rankings
                   /\ council_final' = r.final_ranking
                   /\ attributions' = r.attributions
                   /\ UNCHANGED error
    /\ fallback_cards' = <<>>
    /\ UNCHANGED sources_by_role
    /\ UNCHANGED <<corpus, commander, constraints, config, openai_api_key,
                   collect_attribution, role_idx,
                   selected_ids, current_cards, cards_by_role, shortfall,
                   deck_rows, voteVars, graphVars, mergeVars, callVars>>

\* lines 272-294: the fallback and cards_by_role["synergy"]
FallbackSynergy ==
    /\ pc = "synergy_fallback"
    /\ fallback_cards' = FallbackFill("synergy", synergy_target)
    /\ cards' = cards \o fallback_cards'
    /\ cards_by_role' = _merge_rankings(cards_by_role, [r \in {"synergy"} |-> cards'])
    /\ pc' = "persist"
    /\ UNCHANGED <<council_pool, council_rankings, council_final>>
    /\ attributions' = IF Len(cards) < synergy_target /\ collect_attribution
                       THEN Append(attributions, FallbackAttribution(fallback_cards'))
                       ELSE attributions
    /\ sources_by_role' = IF collect_attribution /\ attributions' # <<>>
                          THEN _merge_rankings(sources_by_role,
                                   [r \in {"synergy"} |-> Get(sources_by_role, "synergy", <<>>)
                                                          \o attributions'])
                          ELSE sources_by_role
    /\ UNCHANGED <<corpus, commander, constraints, config, openai_api_key,
                   collect_attribution, role_idx,
                   council_cards, selected_ids, current_cards, shortfall,
                   synergy_target, error, deck_rows, voteVars, graphVars, mergeVars, callVars>>

\* the roles in the order cards_by_role got its keys
RoleOrder == <<"ramp", "draw", "removal", "wincons", "flex", "synergy">>

\* lines 296-311: one DeckCard row per entry of every role list, then commit
PersistDeck ==
    /\ pc = "persist"
    /\ deck_rows' = Concat([k \in 1..Len(RoleOrder) |->
                        [i \in 1..Len(RoleList(RoleOrder[k])) |->
                            [card_id |-> RoleList(RoleOrder[k])[i], role |-> RoleOrder[k]]]])
    /\ pc' = "done"
    /\ UNCHANGED <<council_pool, council_rankings, council_final>>
    /\ UNCHANGED <<attributions, sources_by_role>>
    /\ UNCHANGED <<corpus, commander, constraints, config, openai_api_key,
                   collect_attribution, role_idx,
                   cards, council_cards, fallback_cards, selected_ids, current_cards,
                   cards_by_role, shortfall, synergy_target, error, voteVars, graphVars, mergeVars, callVars>>

Next ==
    \/ SeedDeck
    \/ SelectRole
    \/ FallbackRole
    \/ CommitRole
    \/ SelectSynergy
    \/ FallbackSynergy
    \/ PersistDeck

Spec == Init /\ [][Next]_vars

----------------------------------------------------------------------------
(* The aggregator on its own: aggregate_rankings over bounded inputs *)

VoteNames == {"X", "Y", "Z"}

\* all sequences over S of length at most n
RECURSIVE SeqsUpTo(_, _)
SeqsUpTo(S, n) ==
    IF n = 0 THEN {<<>>}
    ELSE LET shorter == SeqsUpTo(S, n - 1)
         IN  shorter \cup {Append(q, x) : q \in shorter, x \in S}

\* agent "a" may answer anything, empty names and repeats included;
\* agent "b" ranks like a heuristic agent over distinct names
VoteRankings ==
    {[agent \in {"a", "b"} |-> IF agent = "a" THEN ra ELSE rb] :
        ra \in SeqsUpTo(VoteNames \cup {""}, MaxRankLen),
        rb \in {q \in SeqsUpTo(VoteNames, MaxRankLen) : NoDup(q)}}

\* weight maps; an agent without an entry counts 1.0
VoteWeights ==
    {[agent \in {"a", "b"} |-> IF agent = "a" THEN wa ELSE wb] : wa \in 0..2, wb \in 1..2}
    \cup {[agent \in {"a"} |-> wa] : wa \in 1..2}

VoteStrategies == {"borda", "majority", "copeland"}

BuildIdle ==
    /\ corpus = <<>>
    /\ commander = [card_id |-> 0, color_identity |-> {}]
    /\ constraints = [use_council |-> FALSE, use_llm_agent |-> FALSE]
    /\ config = DEFAULT_CONFIG
    /\ openai_api_key = FALSE
    /\ pc = "idle"
    /\ role_idx = 1
    /\ cards = <<>>
    /\ council_cards = <<>>
    /\ council_pool = <<>>
    /\ council_rankings = EmptyMap
    /\ council_final = <<>>
    /\ fallback_cards = <<>>
    /\ selected_ids = {}
    /\ current_cards = <<>>
    /\ cards_by_role = EmptyMap
    /\ shortfall = 0
    /\ synergy_target = 0
    /\ error = ""
    /\ deck_rows = <<>>
    /\ collect_attribution = FALSE
    /\ attributions = <<>>
    /\ sources_by_role = EmptyMap

InitVote ==
    /\ BuildIdle
    /\ GraphIdle
    /\ MergeIdle
    /\ CallIdle
    /\ v_pc = "input"
    /\ v_rankings \in VoteRankings
    /\ v_weights \in VoteWeights
    /\ v_strategy \in VoteStrategies
    /\ v_top_k \in 1..MaxTopK
    /\ v_final = <<>>

\* one call of aggregate_rankings
Aggregate ==
    /\ v_pc = "input"
    /\ v_final' = aggregate_rankings(v_rankings, v_weights, v_strategy, v_top_k)
    /\ v_pc' = "done"
    /\ UNCHANGED <<buildVars, v_rankings, v_weights, v_strategy, v_top_k,
                   graphVars, mergeVars, callVars>>

NextVote == Aggregate

SpecVote == InitVote /\ [][NextVote]_vars

----------------------------------------------------------------------------
(* Loading the configuration: council/config.py.  A dict is a function    *)
(* from its keys; a key the document leaves out is not in the domain.      *)

\* number of agents a configuration document may declare
MaxAgents == 4

\* the keys of a configuration document whose values are dicts
DictKeys == {"voting", "routing"}

\* _deep_merge: dicts are merged key by key, anything else is replaced
RECURSIVE _deep_merge(_, _, _)
_deep_merge(base, incoming, dict_keys) ==
    [k \in (DOMAIN base) \cup (DOMAIN incoming) |->
        IF k \notin DOMAIN incoming THEN base[k]
        ELSE IF k \in DOMAIN base /\ k \in dict_keys
             THEN _deep_merge(base[k], incoming[k], {})
             ELSE incoming[k]]

\* _parse_preferences and _parse_agent: missing fields get their defaults
_parse_agent(data) ==
    AgentConfig(Get(data, "id", "agent"), Get(data, "type", "heuristic"),
                Get(data, "weight", 1), Get(data, "preferences", DefaultPreferences))

_parse_config(data) ==
    With(Get(data, "voting", EmptyMap), LAMBDA voting_data :
    With(Get(data, "routing", EmptyMap), LAMBDA routing_data :
    With(Get(data, "agents", <<>>), LAMBDA agents_data :
         CouncilConfig(Get(voting_data, "strategy", "borda"),
                       Get(voting_data, "top_k", DefaultTopK),
                       Get(routing_data, "strategy", "parallel"),
                       Get(routing_data, "agent_ids", <<>>),
                       Get(routing_data, "debate_adjudicator_id", ""),
                       [i \in 1..Len(agents_data) |-> _parse_agent(agents_data[i])]))))

\* load_council_config giving a document without agents the default agents
\* and keeping its voting and routing
load_council_config_agents_only(doc, overrides) ==
    With(IF doc.exists THEN doc.data ELSE EmptyMap, LAMBDA loaded :
    With(IF DOMAIN overrides # {} THEN _deep_merge(loaded, overrides, DictKeys)
         ELSE loaded,
         LAMBDA data :
         IF DOMAIN data = {} THEN DEFAULT_CONFIG
         ELSE With(_parse_config(data), LAMBDA parsed :
                   IF parsed.agents = <<>>
                   THEN [parsed EXCEPT !.agents = DEFAULT_CONFIG.agents]
                   ELSE parsed)))

\* load_council_config: doc.exists is path.exists(), doc.data the loaded dict
load_council_config(doc, overrides) ==
    With(IF doc.exists THEN doc.data ELSE EmptyMap, LAMBDA loaded :
    With(IF DOMAIN overrides # {} THEN _deep_merge(loaded, overrides, DictKeys)
         ELSE loaded,
         LAMBDA data :
         IF DOMAIN data = {} THEN DEFAULT_CONFIG
         ELSE With(_parse_config(data), LAMBDA parsed :
                   IF parsed.agents = <<>> THEN DEFAULT_CONFIG ELSE parsed)))

\* the agents entries documents are made of (ids are unique)
AgentPool == <<
    [id |-> "a", type |-> "heuristic", preferences |-> Preferences(4, 0, 0)],
    [id |-> "b", weight |-> 2, preferences |-> Preferences(0, 0, 4)],
    [id |-> "judge", type |-> "heuristic"],
    [id |-> "c", type |-> "oracle"],
    [id |-> "d", type |-> "heuristic", weight |-> 2] >>

RoutingDocs ==
    {st @@ ids @@ adj :
        st \in {EmptyMap} \cup {("strategy" :> x) :
                    x \in {"parallel", "sequential", "debate", "round-robin"}},
        ids \in {EmptyMap} \cup {("agent_ids" :> x) :
                    x \in {<<"judge", "a">>, <<"b", "ghost", "a">>, <<"ghost">>,
                           <<"c", "judge", "b", "a">>}},
        adj \in {EmptyMap} \cup {("debate_adjudicator_id" :> x) :
                    x \in {"judge", "a", "ghost"}}}

DocData ==
    {EmptyMap, ("voting" :> EmptyMap)}
    \cup {("routing" :> r) @@ ("agents" :> SubSeq(AgentPool, 1, n)) :
            r \in RoutingDocs, n \in 0..MaxAgents}

GraphDocs ==
    {[exists |-> FALSE, data |-> EmptyMap]}
    \cup {[exists |-> TRUE, data |-> d] : d \in DocData}

GraphOverrides ==
    {EmptyMap,
     ("routing" :> ("strategy" :> "sequential")),
     ("voting" :> (("strategy" :> "majority") @@ ("top_k" :> 2))),
     ("agents" :> <<AgentPool[3]>>)}

----------------------------------------------------------------------------
(* One graph.invoke of the compiled council graph.  The graph runs in      *)
(* steps: the nodes of a step run concurrently on the state the step       *)
(* began with, their writes go through the channel reducers, and the next  *)
(* step holds every node an edge leads to from a node of this step.        *)

\* the candidates and the role of the call
GraphCandidates == <<FixedCards[3], FixedCards[4], FixedCards[5]>>
GraphRole == "wincons"

\* the agent of the graph a node was added for
AgentOfNode(n) ==
    With(SelectSeq(g_graph.agent_nodes, LAMBDA a : NodeOf(a) = n), LAMBDA found : found[1])

\* the nodes reached by an edge from a node of S
Targets(S) == {e[2] : e \in {x \in g_graph.edges : x[1] \in S}} \ {EndNode}

InitGraph ==
    /\ BuildIdle
    /\ VoteIdle
    /\ MergeIdle
    /\ CallIdle
    /\ g_doc \in GraphDocs
    /\ g_overrides \in GraphOverrides
    /\ g_config = DEFAULT_CONFIG
    /\ g_graph = [agent_nodes |-> <<>>, edges |-> {}]
    /\ g_pc = "load"
    /\ g_frontier = {} /\ g_running = {} /\ g_returned = {} /\ g_completed = {}
    /\ g_runs = EmptyMap /\ g_before = EmptyMap /\ g_seen = EmptyMap
    /\ g_rankings = EmptyMap /\ g_pending = EmptyMap
    /\ g_final = <<>> /\ g_error = ""

\* graph.py line 111
LoadConfig ==
    /\ g_pc = "load"
    /\ g_config' = load_council_config(g_doc, g_overrides)
    /\ g_pc' = "build"
    /\ UNCHANGED <<g_doc, g_overrides, g_graph, g_frontier, g_running, g_returned,
                   g_completed, g_runs, g_before, g_seen, g_rankings, g_pending,
                   g_final, g_error, buildVars, voteVars, mergeVars, callVars>>

\* the nodes an edge path leads to from a node of S, S included
RECURSIVE ReachableFrom(_, _)
ReachableFrom(edges, S) ==
    With(S \cup {e[2] : e \in {x \in edges : x[1] \in S}}, LAMBDA T :
         IF T = S THEN S ELSE ReachableFrom(edges, T))

\* every node added to the graph can be reached from the entry point
AllReachable(graph) ==
    {AggregateNode} \cup {NodeOf(graph.agent_nodes[i]) : i \in 1..Len(graph.agent_nodes)}
        \subseteq ReachableFrom(graph.edges, {StartNode})

\* graph.py line 128: the router builds the graph; invoke enters at start.
\* Whether compiling a graph with unreachable nodes raises depends on the
\* langgraph release: both outcomes are possible.
BuildGraph ==
    /\ g_pc = "build"
    /\ g_graph' = build_graph(g_config)
    /\ g_frontier' = {StartNode}
    /\ \/ g_pc' = "run" /\ UNCHANGED g_error
       \/ /\ ~AllReachable(g_graph')
          /\ g_pc' = "failed" /\ g_error' = "ValueError"
    /\ UNCHANGED <<g_doc, g_overrides, g_config, g_running, g_returned,
                   g_completed, g_runs, g_before, g_seen, g_rankings, g_pending,
                   g_final, buildVars, voteVars, mergeVars, callVars>>

\* a node of the step starts on the state the step began with
BeginNode(n) ==
    /\ g_pc = "run"
    /\ n \in g_frontier \ (g_running \cup g_returned)
    /\ g_running' = g_running \cup {n}
    /\ g_runs' = (n :> (Get(g_runs, n, 0) + 1)) @@ g_runs
    /\ g_before' = (n :> g_completed) @@ g_before
    /\ g_seen' = (n :> g_rankings) @@ g_seen
    /\ UNCHANGED <<g_doc, g_overrides, g_config, g_graph, g_pc, g_frontier,
                   g_returned, g_completed, g_rankings, g_pending, g_final,
                   g_error, buildVars, voteVars, mergeVars, callVars>>

\* what a node returns: [raised, agent_rankings, final_ranking]
NodeOutput(n) ==
    IF n = StartNode
    THEN [raised |-> "", agent_rankings |-> EmptyMap, final_ranking |-> g_final]
    ELSE IF n = AggregateNode
    THEN [raised |-> "", agent_rankings |-> EmptyMap,
          final_ranking |-> AggregateNodeRun(g_config, g_seen[n])]
    ELSE With(AgentOfNode(n), LAMBDA agent :
         With(AgentNodeRun(g_config, agent.agent_id, agent.agent_type,
                           GraphCandidates, GraphRole, NoReply),
              LAMBDA run :
              [raised |-> run.raised,
               agent_rankings |-> (agent.agent_id :> run.ranking),
               final_ranking |-> g_final]))

\* a running node returns; its write goes through the reducer, or its
\* exception ends the invocation
FinishNode(n) ==
    /\ g_pc = "run"
    /\ n \in g_running
    /\ \E out \in {NodeOutput(n)} :
          IF out.raised # ""
          THEN /\ g_pc' = "failed" /\ g_error' = out.raised
               /\ UNCHANGED <<g_running, g_returned, g_completed, g_pending, g_final>>
          ELSE /\ g_running' = g_running \ {n}
               /\ g_returned' = g_returned \cup {n}
               /\ g_completed' = g_completed \cup {n}
               /\ g_pending' = _merge_rankings(g_pending, out.agent_rankings)
               /\ g_final' = out.final_ranking
               /\ UNCHANGED <<g_pc, g_error>>
    /\ UNCHANGED <<g_doc, g_overrides, g_config, g_graph, g_frontier, g_runs,
                   g_before, g_seen, g_rankings, buildVars, voteVars, mergeVars, callVars>>

\* every node of the step has returned: the writes become the state and the
\* next step is planned; the invocation ends when no node is left to run
NextStep ==
    /\ g_pc = "run"
    /\ g_running = {} /\ g_returned = g_frontier
    /\ g_rankings' = g_pending
    /\ g_frontier' = Targets(g_frontier)
    /\ g_returned' = {}
    /\ g_pc' = IF Targets(g_frontier) = {} THEN "done" ELSE "run"
    /\ UNCHANGED <<g_doc, g_overrides, g_config, g_graph, g_running, g_completed,
                   g_runs, g_before, g_seen, g_pending, g_final, g_error,
                   buildVars, voteVars, mergeVars, callVars>>

GraphNodes == {StartNode, AggregateNode} \cup {<<"agent", id>> : id \in
                  {"a", "b", "judge", "c", "d", "heuristic-core", "llm-theme", "llm-budget"}}

NextGraph ==
    \/ LoadConfig
    \/ BuildGraph
    \/ \E n \in GraphNodes : BeginNode(n)
    \/ \E n \in GraphNodes : FinishNode(n)
    \/ NextStep

SpecGraph == InitGraph /\ [][NextGraph]_vars

----------------------------------------------------------------------------
(* The reducer of the agent_rankings channel applied to bounded maps *)

MergeKeys == {"a", "b"}
MergeValues == {<<>>, <<"X">>, <<"Y", "X">>}

\* the maps from some of the keys to rankings
PartialMaps == UNION {[ks -> MergeValues] : ks \in SUBSET MergeKeys}

InitMerge ==
    /\ BuildIdle
    /\ VoteIdle
    /\ GraphIdle
    /\ CallIdle
    /\ m_pc = "input"
    /\ m_state \in PartialMaps
    /\ m_a \in PartialMaps
    /\ m_b \in PartialMaps
    /\ m_out = EmptyMap

\* two writes reach the channel, a then b
MergeWrites ==
    /\ m_pc = "input"
    /\ m_out' = _merge_rankings(_merge_rankings(m_state, m_a), m_b)
    /\ m_pc' = "done"
    /\ UNCHANGED <<m_state, m_a, m_b, buildVars, voteVars, graphVars, callVars>>

NextMerge == MergeWrites

SpecMerge == InitMerge /\ [][NextMerge]_vars

----------------------------------------------------------------------------
(* One call of _build_candidate_pool on a drawn corpus.  The callers pass   *)
(* limit = max(count * 6, top_k) with count >= 3, so limits are positive.   *)

\* largest limit of the calls
MaxLimit == 3

PoolRoles == {"wincons", "ramp", "synergy"}
PoolExcludes == SUBSET {1, 3, 6}

InitPool ==
    /\ corpus \in Corpora
    /\ commander \in {[card_id |-> 1, color_identity |-> ci] : ci \in {{"W"}, {"W", "U"}}}
    /\ constraints = [use_council |-> TRUE, use_llm_agent |-> FALSE]
    /\ config = DEFAULT_CONFIG
    /\ openai_api_key = FALSE
    /\ pc = "idle"
    /\ role_idx = 1
    /\ cards = <<>> /\ council_cards = <<>> /\ council_pool = <<>>
    /\ council_rankings = EmptyMap /\ council_final = <<>>
    /\ fallback_cards = <<>> /\ selected_ids = {} /\ current_cards = <<>>
    /\ cards_by_role = EmptyMap /\ shortfall = 0 /\ synergy_target = 0
    /\ error = "" /\ deck_rows = <<>>
    /\ collect_attribution = FALSE /\ attributions = <<>> /\ sources_by_role = EmptyMap
    /\ VoteIdle /\ GraphIdle /\ MergeIdle
    /\ p_pc = "input"
    /\ p_role \in PoolRoles
    /\ p_exclude \in PoolExcludes
    /\ p_limit \in 1..MaxLimit
    /\ p_out = <<>>
    /\ r_pc = "idle" /\ r_candidates = <<>> /\ r_final = <<>> /\ r_count = 0
    /\ r_out = <<>>

BuildPool ==
    /\ p_pc = "input"
    /\ \E pool \in {_build_candidate_pool(p_role, commander.color_identity,
                                           p_exclude, p_limit)} :
          p_out' = [i \in 1..Len(pool) |-> pool[i].id]
    /\ p_pc' = "done"
    /\ UNCHANGED <<p_role, p_exclude, p_limit, resolveVars, buildVars, voteVars,
                   graphVars, mergeVars>>

NextPool == BuildPool

SpecPool == InitPool /\ [][NextPool]_vars

----------------------------------------------------------------------------
(* The mapping of a final ranking back to cards of the pool, graph.py lines *)
(* 143-156, on drawn pools and rankings.  A final ranking is the key list   *)
(* of a dict: it holds no name twice.                                       *)

\* largest count of the calls
MaxCount == 3

ResolveCards == <<FixedCards[3], FixedCards[4], FixedCards[5], KindCard("reprint", 1)>>
ResolveNames == {"W1", "W2", "W3", "X"}

\* the pools: the sub-sequences of ResolveCards
ResolvePools ==
    {SelectSeq(ResolveCards, LAMBDA c : c.id \in ids) :
        ids \in SUBSET {ResolveCards[i].id : i \in 1..Len(ResolveCards)}}

InitResolve ==
    /\ BuildIdle /\ VoteIdle /\ GraphIdle /\ MergeIdle
    /\ p_pc = "idle" /\ p_role = "" /\ p_exclude = {} /\ p_limit = 0 /\ p_out = <<>>
    /\ r_pc = "input"
    /\ r_candidates \in ResolvePools
    /\ r_final \in {q \in SeqsUpTo(ResolveNames, MaxRankLen) : NoDup(q)}
    /\ r_count \in 1..MaxCount
    /\ r_out = <<>>

ResolveRanking ==
    /\ r_pc = "input"
    /\ r_out' = RankedCards(r_candidates, r_final, r_count)
    /\ r_pc' = "done"
    /\ UNCHANGED <<r_candidates, r_final, r_count, poolVars, buildVars, voteVars,
                   graphVars, mergeVars>>

NextResolve == ResolveRanking

SpecResolve == InitResolve /\ [][NextResolve]_vars

----------------------------------------------------------------------------
(* Properties of the build *)

InBuild == pc \notin {"idle", "start"}

Stepping == pc \in {"fallback", "commit", "synergy_fallback"}

\* every role list of the build: the stored ones and the one being filled
AllRoleLists ==
    Concat([k \in 1..Len(RoleOrder) |-> RoleList(RoleOrder[k])])
    \o (IF pc \in {"fallback", "commit", "synergy_fallback"} THEN cards ELSE <<>>)

\* the agents of the configuration whose graph node is of type llm
LlmNodeIds ==
    LET nodes == build_graph(config).agent_nodes
    IN  {nodes[i].agent_id : i \in {j \in 1..Len(nodes) : nodes[j].agent_type = "llm"}}

\* C1: at the end of a build no card id is in the lists of two different roles
C1_NoCardInTwoRoles ==
    pc = "done" =>
        \A r1, r2 \in DeckRoles :
            r1 # r2 => Range(RoleList(r1)) \cap Range(RoleList(r2)) = {}

\* a council build that ended with cards in three roles
C1_Witness ==
    /\ pc = "done" /\ constraints.use_council
    /\ RoleList("ramp") # <<>> /\ RoleList("wincons") # <<>> /\ RoleList("synergy") # <<>>

\* C2: no card id occurs twice in the role lists of a build, and the
\* fallback of a role returns no card the council supplied for that role
C2_NoIdSelectedTwice ==
    /\ NoDup(AllRoleLists)
    /\ Range(fallback_cards) \cap Range(council_cards) = {}

\* C4: committing a fixed role with target t and n = council picks +
\* fallback picks adds t - n to the shortfall when n < t and leaves it alone
\* otherwise, the shortfall never decreases, and the synergy step gets the
\* target 24 + the sum of what the fixed roles lack
C4_ShortfallStep ==
    LET n == Len(council_cards) + Len(fallback_cards)
        t == role_targets[role_idx].target
    IN  /\ pc = "commit" =>
              shortfall' = IF n < t THEN shortfall + (t - n) ELSE shortfall
        /\ shortfall' >= shortfall
        /\ pc = "synergy_select" /\ pc' = "synergy_fallback" =>
              /\ synergy_target' = 24 + shortfall
              /\ shortfall = SumSeq([i \in 1..Len(role_targets) |->
                     role_targets[i].target - Len(RoleList(role_targets[i].role))])

C4_ShortfallAccounting == [][C4_ShortfallStep]_vars

\* a build in which ramp fell 9 short, wincons met its target and the
\* synergy step ran with 24 + 32
C4_Witness ==
    /\ pc = "done"
    /\ Len(RoleList("ramp")) = 1 /\ Len(RoleList("wincons")) = 5
    /\ shortfall = 32 /\ synergy_target = 56

\* C5: every card of a role list, council-supplied or fallback-supplied, is
\* commander-legal, within the commander's color identity and classified as
\* the role of the list
FitsRole(id, role) ==
    /\ CardOf(id).legal
    /\ CardOf(id).color_identity \subseteq commander.color_identity
    /\ CardOf(id).role = role

C9_NoAgentFailureEscapes ==
    constraints.use_council => pc # "failed" /\ error = ""

\* C10: without credentials the entry of every External agent is the empty
\* ranking and the role's cards all come from the fallback, filters intact
C10_NoCredentialsEmptyRanking ==
    (constraints.use_council /\ ~openai_api_key /\ LlmNodeIds # {}) =>
        /\ pc # "failed"
        /\ (Stepping /\ council_pool # <<>>) =>
              /\ \A id \in LlmNodeIds :
                    id \in DOMAIN council_rankings /\ council_rankings[id] = <<>>
              /\ \A id \in Range(cards) : FitsRole(id, CurrentRole)

----------------------------------------------------------------------------
(* Properties of the aggregation *)

\* position of a name in a ranking, 0 when absent
IndexOf(seq, name) ==
    IF name \in Range(seq) THEN CHOOSE i \in 1..Len(seq) : seq[i] = name /\ \A j \in 1..(i - 1) : seq[j] # name
    ELSE 0

\* an agent's ranking as the strategies read it: without empty names
Named(agent) == SelectSeq(v_rankings[agent], LAMBDA n : n # "")

Voters == {agent \in DOMAIN v_rankings : v_rankings[agent] # <<>>}

VoteWeight(agent) == IF agent \in DOMAIN v_weights THEN v_weights[agent] ELSE 1

\* the points of the Borda rule: position i (0-based) below top_k is worth
\* (len(ranking) - i) x weight
BordaPoints(name) ==
    SumOver([agent \in Voters |->
                SumSeq([k \in 1..Min(v_top_k, Len(Named(agent))) |->
                    IF Named(agent)[k] = name
                    THEN (Len(Named(agent)) - (k - 1)) * VoteWeight(agent) ELSE 0])],
            Voters)

TopEntries(agent) == Range(Take(Named(agent), v_top_k))

\* C6: the aggregated ranking is never longer than top_k
C6_LengthAtMostTopK ==
    v_pc = "done" => Len(v_final) <= v_top_k

\* C7: the Borda output lists exactly the names with an entry below top_k,
\* each once, by descending points and, at equal points, ascending name;
\* a=[X,Y,Z], b=[Y,X,Z] with unit weights and top_k=3 gives [X,Y,Z]
C7_BordaOrder ==
    (v_pc = "done" /\ v_strategy = "borda") =>
        /\ NoDup(v_final)
        /\ Range(v_final) = UNION {TopEntries(agent) : agent \in Voters}
        /\ \A i, j \in 1..Len(v_final) :
              i < j => \/ BordaPoints(v_final[i]) > BordaPoints(v_final[j])
                       \/ /\ BordaPoints(v_final[i]) = BordaPoints(v_final[j])
                          /\ NameRank(v_final[i]) < NameRank(v_final[j])
        /\ \A n \in Range(v_final) :
              (\A m \in Range(v_final) \ {n} : BordaPoints(n) > BordaPoints(m))
                  => v_final[1] = n
        /\ ( /\ v_rankings = [agent \in {"a", "b"} |->
                                IF agent = "a" THEN <<"X", "Y", "Z">> ELSE <<"Y", "X", "Z">>]
             /\ \A agent \in {"a", "b"} : VoteWeight(agent) = 1
             /\ v_top_k = 3 ) => v_final = <<"X", "Y", "Z">>

\* the consensus example has been aggregated
C7_Witness ==
    /\ v_pc = "done" /\ v_strategy = "borda" /\ v_top_k = 3
    /\ v_rankings = [agent \in {"a", "b"} |->
                        IF agent = "a" THEN <<"X", "Y", "Z">> ELSE <<"Y", "X", "Z">>]
    /\ DOMAIN v_weights = {"a", "b"} /\ v_weights["a"] = 1 /\ v_weights["b"] = 1
    /\ v_final = <<"X", "Y", "Z">>

\* C8: under the majority rule with equal positive weights a name within
\* the first top_k entries of every agent is never listed after a name
\* missing from some agent's first top_k entries
C8_MajorityBroadSupportFirst ==
    (/\ v_pc = "done" /\ v_strategy = "majority"
     /\ \A a1, a2 \in Voters : VoteWeight(a1) = VoteWeight(a2) /\ VoteWeight(a1) > 0) =>
        \A c, d \in Range(v_final) :
            (/\ \A agent \in Voters : c \in TopEntries(agent)
             /\ \E agent \in Voters : d \notin TopEntries(agent))
                => IndexOf(v_final, c) < IndexOf(v_final, d)

----------------------------------------------------------------------------
(* Properties of the routing *)

GraphBuilt == g_pc \in {"run", "done", "failed"}

Started(n) == n \in DOMAIN g_before

AgentNode(id) == <<"agent", id>>

\* the ids of the agents handed to the strategy builder, in order
SelectedIds ==
    [i \in 1..Len(SelectedAgents(g_config)) |-> SelectedAgents(g_config)[i].agent_id]

NodeIds == {g_graph.agent_nodes[i].agent_id : i \in 1..Len(g_graph.agent_nodes)}

DebateWithJudge ==
    /\ GraphBuilt
    /\ g_config.routing.strategy = "debate"
    /\ g_config.routing.debate_adjudicator_id = "judge"
    /\ Len(SelectedIds) = 3 /\ Range(SelectedIds) = {"a", "b", "judge"}

\* C11: debate over a, b, judge with judge as adjudicator: all three have a
\* node, a and b lead to judge and judge to aggregate, neither a nor b leads
\* to aggregate; judge starts after a and b returned, aggregate after judge
C11_DebateAdjudicatorLast ==
    DebateWithJudge =>
        /\ NodeIds = {"a", "b", "judge"}
        /\ {<<AgentNode("a"), AgentNode("judge")>>, <<AgentNode("b"), AgentNode("judge")>>,
            <<AgentNode("judge"), AggregateNode>>} \subseteq g_graph.edges
        /\ <<AgentNode("a"), AggregateNode>> \notin g_graph.edges
        /\ <<AgentNode("b"), AggregateNode>> \notin g_graph.edges
        /\ Started(AgentNode("judge")) =>
              {AgentNode("a"), AgentNode("b")} \subseteq g_before[AgentNode("judge")]
        /\ Started(AggregateNode) => AgentNode("judge") \in g_before[AggregateNode]

\* the debate ran to its end: judge and aggregate have returned
C11_Witness ==
    /\ DebateWithJudge /\ g_pc = "done"
    /\ {AgentNode("a"), AgentNode("b"), AgentNode("judge"), AggregateNode} \subseteq g_completed

KnownStrategies == {"parallel", "sequential", "debate"}

\* C12: for a routing strategy that is none of parallel, sequential and
\* debate the graph is built, and it is the graph of strategy parallel
C12_UnknownStrategyIsParallel ==
    (GraphBuilt /\ g_config.routing.strategy \notin KnownStrategies) =>
        /\ g_graph = build_graph([g_config EXCEPT !.routing.strategy = "parallel"])
        /\ g_graph.edges =
              {<<StartNode, AgentNode(SelectedIds[i])>> : i \in 1..Len(SelectedIds)}
              \cup {<<AgentNode(SelectedIds[i]), AggregateNode>> : i \in 1..Len(SelectedIds)}
              \cup {<<AggregateNode, EndNode>>}

\* an unknown strategy over three agents ran to its end
C12_Witness ==
    /\ g_pc = "done" /\ g_config.routing.strategy = "round-robin"
    /\ Len(SelectedIds) >= 3 /\ AggregateNode \in g_completed

C14_MergeCommutativeIdempotent ==
    m_pc = "done" =>
        /\ (DOMAIN m_a \cap DOMAIN m_b = {}) =>
              m_out = _merge_rankings(_merge_rankings(m_state, m_b), m_a)
        /\ _merge_rankings(_merge_rankings(m_state, m_a), m_a) = _merge_rankings(m_state, m_a)
        /\ _merge_rankings(m_out, m_b) = m_out
        /\ DOMAIN m_out = DOMAIN m_state \cup DOMAIN m_a \cup DOMAIN m_b
        /\ \A k \in DOMAIN m_out :
              m_out[k] = IF k \in DOMAIN m_b THEN m_b[k]
                         ELSE IF k \in DOMAIN m_a THEN m_a[k] ELSE m_state[k]

\* each agent wrote its own key over a state that held both keys, and b
\* wrote after a
C14_Witness ==
    /\ m_pc = "done"
    /\ DOMAIN m_state = {"a", "b"} /\ DOMAIN m_a = {"a"} /\ DOMAIN m_b = {"b"}
    /\ m_a["a"] # m_state["a"] /\ m_b["b"] # m_state["b"]
    /\ m_out = [k \in {"a", "b"} |-> IF k = "a" THEN m_a["a"] ELSE m_b["b"]]

\* the final ranking of the call, computed agent by agent in graph order
OrderFreeFinal == GraphInvoke(g_config, GraphCandidates, GraphRole, EmptyMap).final_ranking

\* C15: under parallel routing every selected agent runs once, on an empty
\* agent_rankings map; aggregate runs once, after every selected agent has
\* returned; and the final ranking does not depend on the interleaving
C15_ParallelIsolation ==
    (GraphBuilt /\ g_config.routing.strategy = "parallel") =>
        /\ \A i \in 1..Len(SelectedIds) :
              Started(AgentNode(SelectedIds[i])) =>
                  /\ DOMAIN g_seen[AgentNode(SelectedIds[i])] = {}
                  /\ g_runs[AgentNode(SelectedIds[i])] = 1
        /\ Started(AggregateNode) =>
              /\ {AgentNode(SelectedIds[i]) : i \in 1..Len(SelectedIds)}
                     \subseteq g_before[AggregateNode]
              /\ g_runs[AggregateNode] = 1
        /\ g_pc # "failed"
        /\ g_pc = "done" =>
              /\ \A i \in 1..Len(SelectedIds) : AgentNode(SelectedIds[i]) \in g_completed
              /\ AggregateNode \in g_completed
              /\ g_final = OrderFreeFinal

\* C16: under sequential routing one agent runs at a time, in the order of
\* the selected agents: an agent starts after its predecessor returned, and
\* aggregate starts after the last agent returned
C16_SequentialOrder ==
    (GraphBuilt /\ g_config.routing.strategy = "sequential") =>
        /\ Cardinality(g_running) <= 1
        /\ \A i \in 1..Len(SelectedIds), j \in 1..Len(SelectedIds) :
              (i < j /\ Started(AgentNode(SelectedIds[j]))) =>
                  AgentNode(SelectedIds[i]) \in g_before[AgentNode(SelectedIds[j])]
        /\ Started(AggregateNode) =>
              {AgentNode(SelectedIds[i]) : i \in 1..Len(SelectedIds)}
                  \subseteq g_before[AggregateNode]

\* a chain given by agent_ids, not in declaration order, ran to its end
C16_Witness ==
    /\ g_pc = "done" /\ g_config.routing.strategy = "sequential"
    /\ SelectedIds = <<"c", "judge", "b", "a">>
    /\ AggregateNode \in g_completed

\* a fixed role for which the corpus holds no eligible card at all: its
\* candidate pool and its fallback are both empty
StarvedRoles ==
    {r \in FixedRoles : \A i \in 1..Len(corpus) : ~FitsRole(corpus[i].id, r)}

\* C17: a build that has a role without any candidate and ends its synergy
\* step below 24 + shortfall cards is not committed: the caller gets a
\* failure
C17_ShortDeckIsRefused ==
    (/\ pc \in {"persist", "done"}
     /\ StarvedRoles # {}
     /\ Len(RoleList("synergy")) < synergy_target) =>
        /\ error # ""
        /\ deck_rows = <<>>

\* the cards of the corpus the council call of the current step may pick
EligibleForCall ==
    {corpus[i].id : i \in {j \in 1..Len(corpus) :
        FitsRole(corpus[j].id, CurrentRole) /\ corpus[j].id \notin selected_ids}}

SingleHeuristicParallel ==
    /\ constraints.use_council
    /\ Len(config.agents) = 1
    /\ config.agents[1].agent_type = "heuristic"
    /\ config.routing.strategy = "parallel"

\* C18: a council of one heuristic agent under parallel routing, with
\* top_k >= count and at least count eligible cards in the corpus, returns
\* exactly count cards, all distinct, all from the pool of the call
C18_SingleHeuristicFillsCount ==
    (/\ pc = "fallback"
     /\ SingleHeuristicParallel
     /\ config.voting.top_k >= CurrentTarget
     /\ Cardinality(EligibleForCall) >= CurrentTarget) =>
        /\ Len(council_cards) = CurrentTarget
        /\ NoDup(council_cards)
        /\ Range(council_cards) \subseteq Range(council_pool)

\* the adjudicator the debate rules name, as a set of at most one id
ExpectedAdjudicator ==
    IF g_config.routing.debate_adjudicator_id \in Range(SelectedIds)
    THEN {g_config.routing.debate_adjudicator_id}
    ELSE IF Len(SelectedIds) > 2 THEN {SelectedIds[Len(SelectedIds)]} ELSE {}

\* the first two selected ids that are not the adjudicator
ExpectedDebaters ==
    Take(SelectSeq(SelectedIds, LAMBDA id : id \notin ExpectedAdjudicator), 2)

Benched == Range(SelectedIds) \ (Range(ExpectedDebaters) \cup ExpectedAdjudicator)

\* C19: in debate routing the adjudicator is the agent named by
\* debate_adjudicator_id if selected, else the last selected agent if more
\* than two are selected, else nobody; the debaters are the first two other
\* selected agents; any further agent has no node and no ranking; without
\* an adjudicator every debater has an edge to aggregate
C19_DebateRoles ==
    (GraphBuilt /\ g_config.routing.strategy = "debate") =>
        /\ [i \in 1..Len(g_graph.agent_nodes) |-> g_graph.agent_nodes[i].agent_id]
              = ExpectedDebaters
                \o [i \in 1..Cardinality(ExpectedAdjudicator) |->
                        CHOOSE id \in ExpectedAdjudicator : TRUE]
        /\ \A d \in Range(ExpectedDebaters) :
              /\ <<StartNode, AgentNode(d)>> \in g_graph.edges
              /\ \A j \in ExpectedAdjudicator :
                    /\ <<AgentNode(d), AgentNode(j)>> \in g_graph.edges
                    /\ <<AgentNode(d), AggregateNode>> \notin g_graph.edges
              /\ ExpectedAdjudicator = {} => <<AgentNode(d), AggregateNode>> \in g_graph.edges
        /\ \A j \in ExpectedAdjudicator : <<AgentNode(j), AggregateNode>> \in g_graph.edges
        /\ \A id \in Benched :
              /\ \A e \in g_graph.edges : e[1] # AgentNode(id) /\ e[2] # AgentNode(id)
              /\ ~Started(AgentNode(id))
              /\ id \notin DOMAIN g_rankings \cup DOMAIN g_pending

\* four agents were selected and no adjudicator named: the last one
\* adjudicated, the first two debated, the third was left out
C19_Witness ==
    /\ g_pc = "done" /\ g_config.routing.strategy = "debate"
    /\ SelectedIds = <<"c", "judge", "b", "a">>
    /\ g_config.routing.debate_adjudicator_id \notin Range(SelectedIds)
    /\ Benched = {"b"}
    /\ DOMAIN g_rankings = {"c", "judge", "a"}
    /\ AggregateNode \in g_completed

\* the configured agent of an id, and the configured agents named by
\* agent_ids, in agent_ids order
ConfiguredAgent(id) ==
    g_config.agents[CHOOSE i \in 1..Len(g_config.agents) : g_config.agents[i].agent_id = id]

NamedAgents ==
    With(SelectSeq(g_config.routing.agent_ids, LAMBDA id : id \in AgentIds(g_config.agents)),
         LAMBDA ids : [i \in 1..Len(ids) |-> ConfiguredAgent(ids[i])])

\* the agents with a node in the graph are the given ones, in their order;
\* a debate may leave some of them out
Participants(agents) ==
    IF g_config.routing.strategy = "debate"
    THEN /\ Range(g_graph.agent_nodes) \subseteq Range(agents)
         /\ g_graph = _build_debate(g_config, agents)
    ELSE g_graph.agent_nodes = agents

\* C20 as stated: a non-empty agent_ids selects exactly the configured
\* agents it names, in its order, dropping unknown ids; an empty agent_ids
\* selects all configured agents in declaration order
C20_AgentIdsSelectExactly ==
    GraphBuilt =>
        Participants(IF g_config.routing.agent_ids # <<>>
                     THEN NamedAgents ELSE g_config.agents)

\* C20 amended: an agent_ids list that names no configured agent selects
\* all configured agents in declaration order, like an empty list; any
\* other agent_ids list selects exactly the configured agents it names, in
\* its order, dropping unknown ids
C20_AgentIdsSelectOrAll ==
    GraphBuilt =>
        Participants(IF NamedAgents # <<>> THEN NamedAgents ELSE g_config.agents)

\* agent_ids named b, an unknown id and a, out of four configured agents:
\* b and a ran, in that order, and nobody else
C20_Witness ==
    /\ g_pc = "done" /\ g_config.routing.strategy = "sequential"
    /\ g_config.routing.agent_ids = <<"b", "ghost", "a">>
    /\ Len(g_config.agents) = 4
    /\ [i \in 1..Len(g_graph.agent_nodes) |-> g_graph.agent_nodes[i].agent_id] = <<"b", "a">>
    /\ AgentNode("b") \in g_before[AgentNode("a")]
    /\ DOMAIN g_rankings = {"a", "b"}

\* the keys of agent_rankings a step wrote: the new ones and the changed ones
WrittenKeys ==
    {k \in DOMAIN g_pending' : k \notin DOMAIN g_pending \/ g_pending'[k] # g_pending[k]}

\* the agent nodes that return in a step
Returning == {n \in g_completed' \ g_completed : n \notin {StartNode, AggregateNode}}

C21_OwnKeyStep ==
    /\ DOMAIN g_pending \subseteq DOMAIN g_pending'
    /\ WrittenKeys \subseteq {AgentOfNode(n).agent_id : n \in Returning}
    /\ \A n \in Returning :
          /\ AgentOfNode(n).agent_id \in DOMAIN g_pending'
          /\ \A k \in DOMAIN g_pending : k # AgentOfNode(n).agent_id => g_pending'[k] = g_pending[k]

C21_AggregateSeesAll ==
    (GraphBuilt /\ Started(AggregateNode)) =>
        /\ DOMAIN g_seen[AggregateNode] = NodeIds
        /\ AggregateNode \in g_completed =>
              g_final = aggregate_rankings(g_seen[AggregateNode],
                            [id \in AgentIds(g_config.agents) |-> ConfiguredAgent(id).weight],
                            g_config.voting.strategy, g_config.voting.top_k)

\* C21: an agent node writes its own key of agent_rankings and no other,
\* no step removes or changes the key of another agent, and aggregate reads
\* a map with one entry per agent node of the graph, the debaters' entries
\* next to the adjudicator's, and scores all of them
C21_OneKeyPerAgent == []C21_AggregateSeesAll /\ [][C21_OwnKeyStep]_vars

\* a debate of a and b adjudicated by judge: aggregate read three entries
\* and the debaters' rankings differ from the adjudicator's
C21_Witness ==
    /\ g_pc = "done" /\ DebateWithJudge
    /\ AggregateNode \in g_completed
    /\ DOMAIN g_seen[AggregateNode] = {"a", "b", "judge"}
    /\ g_seen[AggregateNode]["b"] # g_seen[AggregateNode]["judge"]
    /\ g_final # <<>>

(* Properties of the candidate pool *)

\* the first 5000 cards of the corpus whose id is not excluded
PoolWindow == Take(SelectSeq(corpus, LAMBDA c : c.id \notin p_exclude), 5000)

\* the ids of the eligible cards of the window, in scan order
PoolEligibleIds ==
    With(SelectSeq(PoolWindow, LAMBDA c :
            /\ c.legal
            /\ c.color_identity \subseteq commander.color_identity
            /\ c.role = p_role),
         LAMBDA es : [i \in 1..Len(es) |-> es[i].id])

KnownPositions ==
    {i \in 1..Len(r_final) : \E j \in 1..Len(r_candidates) : r_candidates[j].name = r_final[i]}

\* the name of the pool card of an id
PoolName(id) ==
    r_candidates[CHOOSE j \in 1..Len(r_candidates) : r_candidates[j].id = id].name

\* C23: names of the final ranking that match no pool card are dropped
\* without error; the result follows the known names of the ranking in
\* ranking order, cut to count, so it holds pool cards only and at most
\* count of them
C23_UnknownNamesDropped ==
    r_pc = "done" =>
        /\ Len(r_out) = Min(r_count, Cardinality(KnownPositions))
        /\ Range(r_out) \subseteq {r_candidates[j].id : j \in 1..Len(r_candidates)}
        /\ \A k \in 1..Len(r_out) :
              \E i \in KnownPositions :
                  /\ r_final[i] = PoolName(r_out[k])
                  /\ Cardinality({m \in KnownPositions : m < i}) = k - 1
        /\ Len(r_out) <= r_count

\* an unknown name stood between two known ones, and count cut the result
C23_Witness ==
    /\ r_pc = "done"
    /\ r_final = <<"W2", "X", "W3">>
    /\ Len(r_candidates) >= 3
    /\ \E j \in 1..Len(r_candidates) : r_candidates[j].name = "W1"
    /\ r_count = 2
    /\ r_out = <<4, 5>>

(* Properties of the role sequence *)

\* the first n roles of the fixed order
FirstRoles(n) == {RoleOrder[k] : k \in 1..n}

\* the roles whose step is over, by the position of the build
RolesDone ==
    CASE pc \in {"select", "fallback", "commit"}          -> role_idx - 1
      [] pc \in {"synergy_select", "synergy_fallback"}    -> Len(role_targets)
      [] pc \in {"persist", "done"}                       -> Len(RoleOrder)
      [] OTHER                                            -> Cardinality(DOMAIN cards_by_role)

\* the commander, the seeded lands and the cards of the roles already done
EarlierIds ==
    {commander.card_id} \cup CommandTowerIds \cup BasicLandIds
    \cup UNION {Range(cards_by_role[r]) : r \in DOMAIN cards_by_role}

C24_RolesInOrder ==
    InBuild =>
        /\ DOMAIN cards_by_role = FirstRoles(RolesDone)
        /\ Stepping =>
              /\ CurrentRole = RoleOrder[RolesDone + 1]
              /\ Range(council_pool) \cap EarlierIds = {}
              /\ pc # "fallback" => Range(fallback_cards) \cap EarlierIds = {}

C24_OnceEach ==
    /\ \A r \in DOMAIN cards_by_role :
          r \in DOMAIN cards_by_role' /\ cards_by_role'[r] = cards_by_role[r]
    /\ \/ DOMAIN cards_by_role' = DOMAIN cards_by_role
       \/ /\ Cardinality(DOMAIN cards_by_role) < Len(RoleOrder)
          /\ DOMAIN cards_by_role' \ DOMAIN cards_by_role
                = {RoleOrder[Cardinality(DOMAIN cards_by_role) + 1]}

\* C24: the roles are filled one after another, each once, in the order
\* ramp, draw, removal, wincons, flex, synergy, and the pool and the
\* fallback of a step hold no id of an earlier step, of the commander or of
\* the seeded lands
C24_RolesOneByOne == []C24_RolesInOrder /\ [][C24_OnceEach]_vars

\* the build is over; the commander's card is eligible for synergy and the
\* synergy step, which got cards, left it out
C24_Witness ==
    /\ pc = "done"
    /\ FitsRole(commander.card_id, "synergy")
    /\ RoleList("synergy") # <<>> /\ RoleList("wincons") # <<>>
    /\ commander.card_id \notin Range(RoleList("synergy"))
    /\ council_pool # <<>>

(* Properties of the attribution *)

\* the attribution entries recorded for a role
SourcesOf(r) == Get(sources_by_role, r, <<>>)

\* the card ids some entry recorded for the role lists
AttributedIds(r) == UNION {Range(SourcesOf(r)[k].card_ids) : k \in 1..Len(SourcesOf(r))}

\* the fallback_selection entries of the step being committed
FallbackEntries == SelectSeq(attributions, LAMBDA e : e.source_type = "fallback_selection")

\* C25: with attribution on, every card of a role's list is listed by an
\* attribution entry recorded for the role, and the fallback_selection
\* entry of a role lists exactly what the fallback supplied
C25_EveryCardAttributed ==
    collect_attribution =>
        /\ pc \in {"persist", "done"} =>
              \A r \in DOMAIN cards_by_role : Range(cards_by_role[r]) \subseteq AttributedIds(r)
        /\ pc \in {"commit", "persist"} =>
              \A k \in 1..Len(FallbackEntries) : FallbackEntries[k].card_ids = fallback_cards

(* Properties of repeated names *)

\* the agents of the current council call whose ranking repeats a name
RepeatingAgents == {a \in DOMAIN council_rankings : ~NoDup(council_rankings[a])}

\* C26: whatever names the agents' rankings repeat, the final ranking holds
\* every name at most once, and the cards the council selects for the role
\* hold no card and no name twice
C26_RepeatedNamesOnce ==
    (Stepping /\ constraints.use_council) =>
        /\ NoDup(council_final)
        /\ NoDup(council_cards)
        /\ NoDup(NamesOf(council_cards))

\* an agent ranked a name twice, and the council selected a card of that name
C26_Witness ==
    /\ Stepping /\ constraints.use_council
    /\ \E a \in RepeatingAgents :
          \E i, j \in 1..Len(council_rankings[a]) :
              /\ i < j /\ council_rankings[a][i] = council_rankings[a][j]
              /\ council_rankings[a][i] \in Range(NamesOf(council_cards))

(* Properties of the deck size *)

TargetOf(r) == role_targets[CHOOSE i \in 1..Len(role_targets) : role_targets[i].role = r].target

\* the cards of the five fixed roles' lists
FixedTotal == SumSeq([i \in 1..Len(role_targets) |-> Len(RoleList(role_targets[i].role))])

\* C27: no fixed role's list is longer than the role's target, and from the
\* start of the synergy step on the fixed roles' lists and the synergy
\* target add up to 62
C27_DeckAddsUp ==
    InBuild =>
        /\ \A r \in FixedRoles : Len(RoleList(r)) <= TargetOf(r)
        /\ pc \in {"fallback", "commit"} => Len(cards) <= CurrentTarget
        /\ pc \in {"synergy_fallback", "persist", "done"} => FixedTotal + synergy_target = 62

\* the synergy step began after a role met its target and the others fell
\* short
C27_Witness ==
    /\ pc = "synergy_fallback"
    /\ Len(RoleList("wincons")) = TargetOf("wincons")
    /\ Len(RoleList("ramp")) \in 1..(TargetOf("ramp") - 1)
    /\ synergy_target > SynergyBase
    /\ constraints.use_council

\* agent_ids is not empty and names no configured agent
OnlyUnknownIds ==
    /\ g_config.routing.agent_ids # <<>>
    /\ Range(g_config.routing.agent_ids) \cap AgentIds(g_config.agents) = {}

\* C28: when agent_ids is not empty and none of its ids names a configured
\* agent, build_graph works with all configured agents, in declaration
\* order, not with an empty selection
C28_UnknownIdsSelectAll ==
    (GraphBuilt /\ OnlyUnknownIds) =>
        /\ g_graph.agent_nodes # <<>>
        /\ Participants(g_config.agents)
        /\ g_config.routing.strategy = "sequential" =>
              \A i \in 1..(Len(g_config.agents) - 1) :
                  <<NodeOf(g_config.agents[i]), NodeOf(g_config.agents[i + 1])>> \in g_graph.edges

\* agent_ids named only an unknown id, and all four configured agents ran
C28_Witness ==
    /\ g_pc = "done" /\ OnlyUnknownIds
    /\ Len(g_config.agents) = 4
    /\ g_config.routing.strategy # "debate"
    /\ \A i \in 1..Len(g_config.agents) : NodeOf(g_config.agents[i]) \in g_completed
    /\ DOMAIN g_rankings = AgentIds(g_config.agents)

\* C29: whatever the strategy, the non-empty selection and the
\* debate_adjudicator_id, the graph leads from start through an agent node
\* to aggregate, the build of the graph does not fail, and an invocation
\* that ends has run aggregate exactly once
C29_AggregateReachable ==
    GraphBuilt =>
        /\ \E i \in 1..Len(g_graph.agent_nodes) :
              /\ <<StartNode, NodeOf(g_graph.agent_nodes[i])>> \in g_graph.edges
              /\ AggregateNode \in ReachableFrom(g_graph.edges, {NodeOf(g_graph.agent_nodes[i])})
        /\ g_error # "ValueError"
        /\ g_pc = "done" => AggregateNode \in g_completed /\ g_runs[AggregateNode] = 1

(* Properties of the loaded configuration *)

\* the file contents, {} without a file
FileData == IF g_doc.exists THEN g_doc.data ELSE EmptyMap

\* a setting of a section: the override's if it gives one, else the file's,
\* else the default
Setting(section, key, default) ==
    IF section \in DOMAIN g_overrides /\ key \in DOMAIN g_overrides[section]
    THEN g_overrides[section][key]
    ELSE IF section \in DOMAIN FileData /\ key \in DOMAIN FileData[section]
    THEN FileData[section][key]
    ELSE default

\* the agents entries of the merged document
MergedAgents ==
    IF "agents" \in DOMAIN g_overrides THEN g_overrides["agents"]
    ELSE IF "agents" \in DOMAIN FileData THEN FileData["agents"] ELSE <<>>

ConfigLoaded == g_pc \notin {"idle", "load"}

\* C30: a merged document without agents loads as the built-in default
\* config, its voting and routing settings dropped; a merged document with
\* agents loads with its own voting, routing and agents
C30_NoAgentsMeansDefault ==
    ConfigLoaded =>
        IF MergedAgents = <<>>
        THEN g_config = DEFAULT_CONFIG
        ELSE /\ g_config.voting = [strategy |-> Setting("voting", "strategy", "borda"),
                                   top_k |-> Setting("voting", "top_k", 25)]
             /\ g_config.routing =
                   [strategy |-> Setting("routing", "strategy", "parallel"),
                    agent_ids |-> Setting("routing", "agent_ids", <<>>),
                    debate_adjudicator_id |-> Setting("routing", "debate_adjudicator_id", "")]
             /\ Len(g_config.agents) = Len(MergedAgents)
             /\ \A i \in 1..Len(MergedAgents) :
                   /\ g_config.agents[i].agent_id = MergedAgents[i].id
                   /\ g_config.agents[i].agent_type =
                         (IF "type" \in DOMAIN MergedAgents[i]
                          THEN MergedAgents[i].type ELSE "heuristic")
                   /\ g_config.agents[i].weight =
                         (IF "weight" \in DOMAIN MergedAgents[i]
                          THEN MergedAgents[i].weight ELSE 1)

\* the override asked for sequential routing, the file names a debate and
\* no agents: the default config came back, with parallel routing
C30_Witness ==
    /\ ConfigLoaded
    /\ g_overrides = ("routing" :> ("strategy" :> "sequential"))
    /\ g_doc.exists /\ "routing" \in DOMAIN g_doc.data
    /\ Setting("routing", "agent_ids", <<>>) # <<>>
    /\ MergedAgents = <<>>
    /\ g_config.routing.strategy = "parallel" /\ g_config.routing.agent_ids = <<>>
    /\ Len(g_config.agents) = 3

====
